---- MODULE Spec2Model ----
(***************************************************************************)
(* State-machine model of the NexStar hand-controller client               *)
(* (src/nexstar/__init__.py): the public operations of                     *)
(* NexstarHandController, the framing reader _read_binary, the request     *)
(* builder _to_bytes/_write, the passthrough recovery path, and the serial *)
(* transport (request line, bytes in flight, input buffer) with the hand   *)
(* controller as a nondeterministic responder.                             *)
(***************************************************************************)
EXTENDS Integers, Sequences, FiniteSets, TLC

(***************************************************************************)
(* Bounds of the exploration.                                              *)
(***************************************************************************)
\* A new call is started only while at most MaxStale unread bytes of earlier
\* exchanges are still in the input buffer or in flight.
MaxStale == 1
\* Longest sub-command handed to passthrough() is MaxCmdLen bytes.
MaxCmdLen == 5
\* slew_fixed rates explored: -(9 + RateSlack) .. 9 + RateSlack.
RateSlack == 1

(***************************************************************************)
(* Program constants.                                                      *)
(***************************************************************************)
Hash == 35
Comma == 44

\* NexstarDeviceId
AZM_RA_MOTOR == 16
ALT_DEC_MOTOR == 17
GPS_DEVICE == 176
RTC_DEVICE == 178
NexstarDeviceId == {AZM_RA_MOTOR, ALT_DEC_MOTOR, GPS_DEVICE, RTC_DEVICE}

\* NexstarPassthroughCommand
MOTOR_SLEW_POSITIVE_VARIABLE_RATE == 6
MOTOR_SLEW_NEGATIVE_VARIABLE_RATE == 7
MOTOR_SLEW_POSITIVE_FIXED_RATE == 36
MOTOR_SLEW_NEGATIVE_FIXED_RATE == 37
GET_DEVICE_VERSION == 254

\* NexstarTrackingMode
NexstarTrackingMode == 0 .. 3

\* NexstarCommand: the opcode characters, as ASCII codes.
NexstarCommand ==
    [ GET_POSITION_RA_DEC |-> 69, GET_POSITION_RA_DEC_PRECISE |-> 101,
      GET_POSITION_AZM_ALT |-> 90, GET_POSITION_AZM_ALT_PRECISE |-> 122,
      GOTO_POSITION_RA_DEC |-> 82, GOTO_POSITION_RA_DEC_PRECISE |-> 114,
      GOTO_POSITION_AZM_ALT |-> 66, GOTO_POSITION_AZM_ALT_PRECISE |-> 98,
      SYNC |-> 83, SYNC_PRECISE |-> 115,
      GET_TRACKING_MODE |-> 116, SET_TRACKING_MODE |-> 84,
      GET_LOCATION |-> 119, SET_LOCATION |-> 87,
      GET_TIME |-> 104, SET_TIME |-> 72,
      GET_VERSION |-> 86, GET_MODEL |-> 109, ECHO |-> 75,
      GET_ALIGNMENT_COMPLETE |-> 74, GET_GOTO_IN_PROGRESS |-> 76,
      CANCEL_GOTO |-> 77, PASSTHROUGH |-> 80 ]

(***************************************************************************)
(* Python values, tagged by type.                                          *)
(***************************************************************************)
PyInt(n) == [t |-> "int", v |-> n]
PyFloat(n) == [t |-> "float", v |-> n]
PyStr(s) == [t |-> "str", v |-> s]
PyBytes(s) == [t |-> "bytes", v |-> s]
PyList(s) == [t |-> "list", v |-> s]
\* An Enum member; its .value is a Python value.
PyEnum(cls, val) == [t |-> "enum", cls |-> cls, v |-> val]
Command(name) == PyEnum("NexstarCommand", PyStr(<<NexstarCommand[name]>>))

\* The result of an evaluation that may raise.
Ok(bs) == [ok |-> TRUE, bytes |-> bs, exc |-> "none"]
Raised(e) == [ok |-> FALSE, bytes |-> <<>>, exc |-> e]

\* b''.join of the parts, left to right; the first part that raises wins.
RECURSIVE JoinParts(_)
JoinParts(parts) ==
    IF parts = <<>> THEN Ok(<<>>)
    ELSE LET h == Head(parts) IN
         IF ~h.ok THEN h
         ELSE LET r == JoinParts(Tail(parts)) IN
              IF r.ok THEN Ok(h.bytes \o r.bytes) ELSE r

\* NexstarHandController._to_bytes
RECURSIVE to_bytes(_)
to_bytes(arg) ==
    LET a == IF /\ arg.t = "enum"
                /\ arg.cls \in {"NexstarCommand", "NexstarTrackingMode",
                                "NexstarDeviceId", "NexstarPassthroughCommand"}
             THEN arg.v ELSE arg IN
    CASE a.t = "int" ->
            IF a.v \in 0 .. 255 THEN Ok(<<a.v>>) ELSE Raised("ValueError")
      [] a.t = "str" ->
            IF \A i \in DOMAIN a.v : a.v[i] < 128
            THEN Ok(a.v) ELSE Raised("UnicodeEncodeError")
      [] a.t = "bytes" -> Ok(a.v)
      [] a.t = "list" -> JoinParts([i \in DOMAIN a.v |-> to_bytes(a.v[i])])
      [] OTHER -> Raised("TypeError")

(***************************************************************************)
(* State.                                                                  *)
(***************************************************************************)
VARIABLES
    pc,       \* where the caller is: "idle", "read" (in _read_binary), "recover"
    cur,      \* the call in progress: operation, read length, decoding context
    tx,       \* requests written to the transport, not yet taken by the hand controller
    pending,  \* response bytes sent by the hand controller, still in flight
    rx,       \* the transport's input buffer: bytes device.read() will return
    writes,   \* the number of device.write() calls of the current call
    reads,    \* the device.read() calls of the current call: bytes asked, bytes got
    outcome,  \* how the last finished call ended
    prev,     \* whether the call before it ended in NexstarPassthroughError
    ans,      \* the kind of answer the hand controller gave to the last request
    site,     \* the location the hand controller has stored
    main,     \* a run of main(): where it is, calls made, connections opened and closed
    other     \* a second caller using the same NexstarHandController

vars == <<pc, cur, tx, pending, rx, writes, reads, outcome, prev, ans, site, main, other>>

\* A byte on the input side carries the exchange it belongs to:
\*   "own"  - response to the request of the current (or last) call,
\*   "late" - response to an earlier call whose read had timed out,
\*   "old"  - left over from an earlier call that did not time out.
Tagged(bs, tag) == [i \in DOMAIN bs |-> [b |-> bs[i], tag |-> tag]]
Untag(tbs) == [i \in DOMAIN tbs |-> tbs[i].b]
TagsOf(tbs) == {tbs[i].tag : i \in DOMAIN tbs}

NoCall == [op |-> "none", n |-> 0, arg |-> 0, inputs |-> <<>>, err |-> "none"]
NoOutcome == [kind |-> "none", value |-> <<>>, detail |-> "none", cause |-> "none"]
Returned(v) == [kind |-> "value", value |-> v, detail |-> "none", cause |-> "none"]
Exception(kind, detail) ==
    [kind |-> kind, value |-> <<>>, detail |-> detail, cause |-> "none"]
\* raise ... from exception: cause is the detail of the NexstarProtocolError
\* that is chained.
ExceptionFrom(kind, detail, cause) ==
    [kind |-> kind, value |-> <<>>, detail |-> detail, cause |-> cause]
None == <<"None">>
\* The stored location before any setLocation: 0 N, 0 E.
NoSite == [bytes |-> <<0, 0, 0, 0, 0, 0, 0, 0>>, set |-> FALSE,
           inputs |-> [latitude |-> 0, longitude |-> 0]]
NoRun == [at |-> "start", k |-> 0, opened |-> 0, closed |-> 0]
NoOther == [pc |-> "idle", n |-> 0, got |-> 0, tags |-> {}]

Init ==
    /\ pc = "idle"
    /\ cur = NoCall
    /\ tx = <<>>
    /\ pending = <<>>
    /\ rx = <<>>
    /\ writes = 0
    /\ reads = <<>>
    /\ outcome = NoOutcome
    /\ prev = FALSE
    /\ ans = "none"
    /\ site = NoSite
    /\ main = NoRun
    /\ other = NoOther

(***************************************************************************)
(* _read_binary: the framing check on the bytes device.read() returned.    *)
(***************************************************************************)
\* serial.Serial.read(n): n bytes when the buffer holds them, else (timeout)
\* whatever it holds.
DeviceRead(n) == IF Len(rx) >= n THEN SubSeq(rx, 1, n) ELSE rx

\* _read_binary without the check of the trailing hash character.
read_binary_unchecked(expected_response_length, response) ==
    IF Len(response) # expected_response_length
    THEN [exc |-> "NexstarProtocolError", detail |-> "length", payload |-> <<>>]
    ELSE [exc |-> "none", detail |-> "none",
          payload |-> SubSeq(response, 1, Len(response) - 1)]

\* _read_binary taking a hash character inside the payload for a framing
\* error.
read_binary_hash_free(expected_response_length, response) ==
    IF ~(expected_response_length > 0)
    THEN [exc |-> "NexstarUsageError", detail |-> "expected_response_length", payload |-> <<>>]
    ELSE IF Len(response) # expected_response_length
    THEN [exc |-> "NexstarProtocolError", detail |-> "length", payload |-> <<>>]
    ELSE IF response[Len(response)] # Hash
            \/ \E i \in 1 .. Len(response) - 1 : response[i] = Hash
    THEN [exc |-> "NexstarProtocolError", detail |-> "hash", payload |-> <<>>]
    ELSE [exc |-> "none", detail |-> "none",
          payload |-> SubSeq(response, 1, Len(response) - 1)]

\* NexstarHandController._read_binary, on the bytes the transport returned.
read_binary(expected_response_length, response) ==
    IF ~(expected_response_length > 0)
    THEN [exc |-> "NexstarUsageError", detail |-> "expected_response_length", payload |-> <<>>]
    ELSE IF Len(response) # expected_response_length
    THEN [exc |-> "NexstarProtocolError", detail |-> "length", payload |-> <<>>]
    ELSE IF response[Len(response)] # Hash
    THEN [exc |-> "NexstarProtocolError", detail |-> "hash", payload |-> <<>>]
    ELSE [exc |-> "none", detail |-> "none",
          payload |-> SubSeq(response, 1, Len(response) - 1)]

(***************************************************************************)
(* Number formatting and parsing.                                          *)
(***************************************************************************)
\* round() of h/2: Python rounds a tie to the even neighbour.
RoundHalf(h) ==
    LET f == h \div 2 IN
    IF h % 2 = 0 THEN f
    ELSE IF f % 2 = 0 THEN f ELSE f + 1

HexChar(d) == IF d < 10 THEN 48 + d ELSE 87 + d

\* "{:x}".format(n) for n >= 0
RECURSIVE HexText(_)
HexText(n) ==
    IF n < 16 THEN <<HexChar(n)>> ELSE HexText(n \div 16) \o <<HexChar(n % 16)>>

Zeros(k) == [i \in 1 .. k |-> 48]

\* "{:0Wx}".format(n) for n >= 0: zero-padded to at least W characters.
HexField(n, W) ==
    LET t == HexText(n) IN
    IF Len(t) >= W THEN t ELSE Zeros(W - Len(t)) \o t

IsHexChar(c) == c \in (48 .. 57) \cup (65 .. 70) \cup (97 .. 102)
HexDigit(c) == IF c <= 57 THEN c - 48 ELSE IF c <= 70 THEN c - 55 ELSE c - 87

\* str.split(","): the fields between the commas.
RECURSIVE SplitComma(_)
SplitComma(s) ==
    IF \A i \in DOMAIN s : s[i] # Comma THEN <<s>>
    ELSE LET k == CHOOSE i \in DOMAIN s :
                      s[i] = Comma /\ \A j \in 1 .. i - 1 : s[j] # Comma
         IN <<SubSeq(s, 1, k - 1)>> \o SplitComma(SubSeq(s, k + 1, Len(s)))

\* The ASCII whitespace int() skips at both ends of its text.
WhiteSpace == (9 .. 13) \cup {32}
Strip(t) ==
    LET kept == {i \in DOMAIN t : t[i] \notin WhiteSpace} IN
    IF kept = {} THEN <<>>
    ELSE SubSeq(t, CHOOSE i \in kept : \A j \in kept : i <= j,
                   CHOOSE i \in kept : \A j \in kept : i >= j)

\* int(text, 16), the stripped text being computed once (t is bound to its
\* value): surrounding whitespace is dropped, then an optional sign,
\* an optional "0x"/"0X" prefix (which one underscore may follow), then hex
\* digits with single underscores allowed between digits; anything else
\* raises ValueError (ok FALSE).  The value is kept as its sign and the
\* sequence of its hex digits, as codes may exceed 31 bits.
int16(text) ==
    LET parse(t) ==
            LET signed == t # <<>> /\ t[1] \in {43, 45}
                u == IF signed THEN Tail(t) ELSE t
                prefixed == Len(u) >= 2 /\ u[1] = 48 /\ u[2] \in {88, 120}
                v == IF prefixed THEN SubSeq(u, 3, Len(u)) ELSE u
                w == IF prefixed /\ v # <<>> /\ v[1] = 95 THEN Tail(v) ELSE v
                ok == /\ w # <<>>
                      /\ IsHexChar(w[1]) /\ IsHexChar(w[Len(w)])
                      /\ \A i \in DOMAIN w :
                            \/ IsHexChar(w[i])
                            \/ w[i] = 95 /\ i > 1 /\ IsHexChar(w[i - 1])
                digits == LET d == SelectSeq(w, IsHexChar)
                          IN [i \in DOMAIN d |-> HexDigit(d[i])]
            IN [ok |-> ok,
                neg |-> ok /\ t[1] = 45 /\ \E i \in DOMAIN digits : digits[i] # 0,
                digits |-> IF ok THEN digits ELSE <<>>]
    IN CHOOSE r \in {parse(t) : t \in {Strip(text)}} : TRUE

\* An angle handed to gotoPosition is 360 * (u * 2^16 + f) / 2^33 degrees,
\* u in 0 .. 2^17 - 1 and f in 0 .. 2^16 - 1: u counts half steps of the
\* standard code and f half steps of the precise code.  These angles are
\* exact in binary floating point, and so are the quotients and products
\* below.
Angle(u, f) == [u |-> u, f |-> f]

\* The standard field with the code reduced modulo 2^16.
StandardField_wrapped(a) ==
    LET q == a.u \div 2
        r == (a.u % 2) * 65536 + a.f
        code == IF r < 65536 THEN q
                ELSE IF r > 65536 THEN q + 1
                ELSE IF q % 2 = 0 THEN q ELSE q + 1
    IN HexField(code % 65536, 4)

\* "{:04x}".format(round(float(a) / 360.0 * 0x10000)): the product is
\* u / 2 + f / 2^17, rounded to the nearest integer, a tie to the even one.
StandardField(a) ==
    LET q == a.u \div 2
        r == (a.u % 2) * 65536 + a.f
        code == IF r < 65536 THEN q
                ELSE IF r > 65536 THEN q + 1
                ELSE IF q % 2 = 0 THEN q ELSE q + 1
    IN HexField(code, 4)

\* "{:08x}".format(round(float(a) / 360.0 * 0x100000000)): the product is
\* u * 2^15 + f / 2; the text is that of its upper 20 bits and more (five
\* digits at least) followed by the three digits of its lower 12 bits.
PreciseField(a) ==
    LET low == RoundHalf(a.f) IN
    HexField(8 * a.u + low \div 4096, 5) \o HexField(low % 4096, 3)

(***************************************************************************)
(* Decoding of a correctly framed payload, per operation.                  *)
(***************************************************************************)
\* bytes.decode("ascii")
AsciiOk(bs) == \A i \in DOMAIN bs : bs[i] < 128

\* getPosition returning its two angles in the opposite order.
DecodePosition_swapped(bits, payload) ==
    IF ~AsciiOk(payload) THEN Exception("UnicodeDecodeError", "none")
    ELSE LET response == SplitComma(payload) IN
         IF Len(response) # 2
         THEN Exception("NexstarProtocolError", "unexpected response")
         ELSE LET first == int16(response[1])
                  second == int16(response[2])
              IN IF ~(first.ok /\ second.ok) THEN Exception("ValueError", "none")
                 ELSE Returned([codes |-> <<second.digits, first.digits>>,
                                neg |-> <<second.neg, first.neg>>,
                                bits |-> bits])

\* getPosition, after _read_ascii (response and the two codes are each
\* computed once and bound to their value): the angles are 360 * code / 2^bits, kept
\* as the sign and hex digits of each code with the bit width of the
\* denominator.
DecodePosition(bits, payload) ==
    LET angles(codes) ==
            LET first == codes[1]
                second == codes[2]
            IN IF ~(first.ok /\ second.ok) THEN Exception("ValueError", "none")
               ELSE Returned([codes |-> <<first.digits, second.digits>>,
                              neg |-> <<first.neg, second.neg>>,
                              bits |-> bits])
        split(response) ==
            IF Len(response) # 2
            THEN Exception("NexstarProtocolError", "unexpected response")
            ELSE CHOOSE r \in {angles(codes) :
                              codes \in {<<int16(response[1]), int16(response[2])>>}} : TRUE
    IN IF ~AsciiOk(payload) THEN Exception("UnicodeDecodeError", "none")
       ELSE CHOOSE r \in {split(response) : response \in {SplitComma(payload)}} : TRUE

\* getLocation ignoring the two sign bytes.
DecodeLocation_unsigned(response) ==
    Returned(<<response[1] * 3600 + response[2] * 60 + response[3],
               response[5] * 3600 + response[6] * 60 + response[7]>>)

\* getLocation negating a coordinate only when its sign byte is 1.
DecodeLocation_sign_one(response) ==
    LET lat == response[1] * 3600 + response[2] * 60 + response[3]
        lon == response[5] * 3600 + response[6] * 60 + response[7]
    IN Returned(<<IF response[4] = 1 THEN -lat ELSE lat,
                  IF response[8] = 1 THEN -lon ELSE lon>>)

\* getLocation: (latitude, longitude), each in arc-seconds (the code
\* divides by 3600.0 to return degrees).
DecodeLocation(response) ==
    LET lat == response[1] * 3600 + response[2] * 60 + response[3]
        lon == response[5] * 3600 + response[6] * 60 + response[7]
    IN Returned(<<IF response[4] # 0 THEN -lat ELSE lat,
                  IF response[8] # 0 THEN -lon ELSE lon>>)

\* The zone byte taken as it is, without the two's complement.
zone_decode_unsigned(zone) == zone

\* getTime: if zone >= 128: zone -= 256
zone_decode(zone) == IF zone >= 128 THEN zone - 256 ELSE zone

DaysInMonth(year, month) ==
    IF month = 2
    THEN (IF year % 4 = 0 /\ (year % 100 # 0 \/ year % 400 = 0) THEN 29 ELSE 28)
    ELSE IF month \in {4, 6, 9, 11} THEN 30 ELSE 31

\* getTime: datetime.timezone() and datetime.datetime() raise ValueError on
\* fields out of range.
DecodeTime(response) ==
    LET hour == response[1]
        minute == response[2]
        second == response[3]
        month == response[4]
        day == response[5]
        year == response[6] + 2000
        zone == zone_decode(response[7])
        dst == response[8] # 0
    IN IF ~(zone \in -23 .. 23) THEN Exception("ValueError", "none")
       ELSE IF ~(/\ month \in 1 .. 12
                 /\ day \in 1 .. DaysInMonth(year, month)
                 /\ hour \in 0 .. 23 /\ minute \in 0 .. 59 /\ second \in 0 .. 59)
       THEN Exception("ValueError", "none")
       ELSE Returned(<<year, month, day, hour, minute, second, zone, dst>>)

\* echo taking whatever byte the hand controller sent back.
echo_response_any(response, c) == TRUE

\* echo: response == c, the byte read against the byte sent.
echo_response_ok(response, c) == response = c

\* What each public operation makes of the payload _read_binary returned.
Decode(c, payload) ==
    CASE c.op = "getPosition" -> DecodePosition(c.arg, payload)
      [] c.op \in {"gotoPosition", "setTrackingMode", "setLocation", "cancelGoto",
                   "slew_fixed", "slew_variable", "slew"} -> Returned(None)
      [] c.op \in {"getTrackingMode", "getModel"} -> Returned(payload[1])
      [] c.op = "getLocation" -> DecodeLocation(payload)
      [] c.op = "getTime" -> DecodeTime(payload)
      [] c.op = "getVersion" -> Returned(<<payload[1], payload[2]>>)
      [] c.op = "echo" ->
            IF ~echo_response_ok(payload[1], c.arg)
            THEN Exception("NexstarProtocolError", "unexpected response")
            ELSE Returned(None)
      [] c.op = "getAlignmentComplete" ->
            IF payload[1] \notin {0, 1}
            THEN Exception("NexstarProtocolError", "unexpected response")
            ELSE Returned(payload[1] = 1)
      [] c.op = "getGotoInProgress" ->
            IF ~AsciiOk(payload) THEN Exception("UnicodeDecodeError", "none")
            ELSE IF payload[1] \notin {48, 49}
            THEN Exception("NexstarProtocolError", "unexpected response")
            ELSE Returned(payload[1] = 49)
      [] c.op = "passthrough" -> Returned(payload)
      [] c.op = "getDeviceVersion" ->
            IF Len(payload) # 2 THEN Exception("ValueError", "none")
            ELSE Returned(<<payload[1], payload[2]>>)

(***************************************************************************)
(* Entering and leaving a call.                                            *)
(***************************************************************************)
\* The read of the call that just ended came back short (timeout).
TimedOut == \E i \in DOMAIN reads : reads[i].got < reads[i].asked

\* Bytes of the exchange that just ended become bytes of an earlier exchange.
Restale(tbs) ==
    [i \in DOMAIN tbs |->
        IF tbs[i].tag = "own"
        THEN [b |-> tbs[i].b, tag |-> IF TimedOut THEN "late" ELSE "old"]
        ELSE tbs[i]]

CanCall == pc = "idle" /\ Len(rx) + Len(pending) <= MaxStale

Enter ==
    /\ prev' = (outcome.kind = "NexstarPassthroughError")
    /\ rx' = Restale(rx)
    /\ pending' = Restale(pending)
    /\ reads' = <<>>
    /\ ans' = "none"
    /\ main' = [main EXCEPT !.k = IF main.at = "run" THEN @ + 1 ELSE @]
    /\ UNCHANGED <<site, other>>

\* The call raises before it touches the transport; its arguments are kept
\* as cur.inputs.
RaiseBeforeIO(op, inputs, exc) ==
    /\ Enter
    /\ pc' = "idle"
    /\ cur' = [op |-> op, n |-> 0, arg |-> 0, inputs |-> inputs, err |-> "none"]
    /\ outcome' = Exception(exc, "none")
    /\ writes' = 0
    /\ tx' = tx

\* A _write that sends the message twice.
WriteRequest_twice(op, n, arg, inputs, request) ==
    LET msg == to_bytes(request) IN
    IF ~msg.ok THEN RaiseBeforeIO(op, inputs, msg.exc)
    ELSE /\ Enter
         /\ pc' = "read"
         /\ cur' = [op |-> op, n |-> n, arg |-> arg, inputs |-> <<>>, err |-> "none"]
         /\ outcome' = NoOutcome
         /\ writes' = 2
         /\ tx' = tx \o <<[bytes |-> msg.bytes, op |-> op, inputs |-> inputs],
                           [bytes |-> msg.bytes, op |-> op, inputs |-> inputs]>>

\* self._write(...) followed by the call of _read_binary/_read_ascii with
\* expected_response_length n: the message is built by _to_bytes first, then
\* written with one device.write(); the caller then blocks in device.read().
\* inputs are the call's arguments, kept with the request while it is on the
\* line; arg is what the decoding of the response needs.
WriteRequest(op, n, arg, inputs, request) ==
    LET msg == to_bytes(request) IN
    IF ~msg.ok THEN RaiseBeforeIO(op, inputs, msg.exc)
    ELSE /\ Enter
         /\ pc' = "read"
         /\ cur' = [op |-> op, n |-> n, arg |-> arg, inputs |-> <<>>, err |-> "none"]
         /\ outcome' = NoOutcome
         /\ writes' = 1
         /\ tx' = Append(tx, [bytes |-> msg.bytes, op |-> op, inputs |-> inputs])

(***************************************************************************)
(* The public operations: argument checks, request, expected length.       *)
(***************************************************************************)
Modes == {"RA_DEC", "AZM_ALT"}
\* Angles explored: 0, 180, the ties of the standard code at 0.5 and 1.5
\* steps, those of the precise code at 0.5 and 1.5 steps, 360 less half a
\* standard step and 360 less half a precise step.
GotoAngles == {Angle(0, 0), Angle(65536, 0), Angle(1, 0), Angle(3, 0),
               Angle(0, 1), Angle(0, 3), Angle(131071, 0), Angle(131071, 65535)}
\* Latitudes and longitudes explored, in half arc-seconds: -4.5 degrees,
\* -1.5 and -0.5 arc-seconds, 0, 52.5 degrees, 255 degrees 59' 59" and 256
\* degrees.
LocationInputs == {-32400, -3, -1, 0, 378000, 1843198, 1843200}
\* Tracking modes handed to setTrackingMode; 4 stands for a plain int that is
\* no NexstarTrackingMode member.
TrackingInputs == 0 .. 4
\* echo arguments: ints, and the floats 1.0, 65.0, 300.0 (isint FALSE).
EchoInputs == [isint : BOOLEAN, v : {1, 65, 300}]

getPosition(coordinateMode, highPrecisionFlag) ==
    LET command ==
            IF highPrecisionFlag
            THEN (IF coordinateMode = "AZM_ALT" THEN "GET_POSITION_AZM_ALT_PRECISE"
                                                ELSE "GET_POSITION_RA_DEC_PRECISE")
            ELSE (IF coordinateMode = "AZM_ALT" THEN "GET_POSITION_AZM_ALT"
                                                ELSE "GET_POSITION_RA_DEC")
        expected_response_length ==
            IF highPrecisionFlag THEN 8 + 1 + 8 + 1 ELSE 4 + 1 + 4 + 1
        bits == IF highPrecisionFlag THEN 32 ELSE 16
    IN /\ CanCall
       /\ WriteRequest("getPosition", expected_response_length, bits,
                       [mode |-> coordinateMode, precise |-> highPrecisionFlag],
                       PyList(<<Command(command)>>))

\* gotoPosition waiting for one byte more than the acknowledgement.
gotoPosition_two_reads(firstCoordinate, secondCoordinate, coordinateMode, highPrecisionFlag) ==
    LET command ==
            IF highPrecisionFlag
            THEN (IF coordinateMode = "AZM_ALT" THEN "GOTO_POSITION_AZM_ALT_PRECISE"
                                                ELSE "GOTO_POSITION_RA_DEC_PRECISE")
            ELSE (IF coordinateMode = "AZM_ALT" THEN "GOTO_POSITION_AZM_ALT"
                                                ELSE "GOTO_POSITION_RA_DEC")
        coordinates ==
            IF highPrecisionFlag
            THEN PreciseField(firstCoordinate) \o <<Comma>> \o PreciseField(secondCoordinate)
            ELSE StandardField(firstCoordinate) \o <<Comma>> \o StandardField(secondCoordinate)
    IN /\ CanCall
       /\ WriteRequest("gotoPosition", 1 + 1, 0,
                       [first |-> firstCoordinate, second |-> secondCoordinate,
                        mode |-> coordinateMode, precise |-> highPrecisionFlag],
                       PyList(<<Command(command), PyStr(coordinates)>>))

gotoPosition(firstCoordinate, secondCoordinate, coordinateMode, highPrecisionFlag) ==
    LET command ==
            IF highPrecisionFlag
            THEN (IF coordinateMode = "AZM_ALT" THEN "GOTO_POSITION_AZM_ALT_PRECISE"
                                                ELSE "GOTO_POSITION_RA_DEC_PRECISE")
            ELSE (IF coordinateMode = "AZM_ALT" THEN "GOTO_POSITION_AZM_ALT"
                                                ELSE "GOTO_POSITION_RA_DEC")
        coordinates ==
            IF highPrecisionFlag
            THEN PreciseField(firstCoordinate) \o <<Comma>> \o PreciseField(secondCoordinate)
            ELSE StandardField(firstCoordinate) \o <<Comma>> \o StandardField(secondCoordinate)
    IN /\ CanCall
       /\ WriteRequest("gotoPosition", 0 + 1, 0,
                       [first |-> firstCoordinate, second |-> secondCoordinate,
                        mode |-> coordinateMode, precise |-> highPrecisionFlag],
                       PyList(<<Command(command), PyStr(coordinates)>>))

\* sync: the format string has three replacement fields for two arguments,
\* so str.format raises IndexError before anything is written.
sync(firstCoordinate, secondCoordinate, highPrecisionFlag) ==
    /\ CanCall
    /\ RaiseBeforeIO("sync", [first |-> firstCoordinate, second |-> secondCoordinate,
                              precise |-> highPrecisionFlag], "IndexError")

getTrackingMode ==
    /\ CanCall
    /\ WriteRequest("getTrackingMode", 1 + 1, 0, <<>>,
                    PyList(<<Command("GET_TRACKING_MODE")>>))

\* setTrackingMode checking its argument only after the request is written.
setTrackingMode_check_after_write(tracking_mode) ==
    /\ CanCall
    /\ IF tracking_mode \notin NexstarTrackingMode
       THEN /\ Enter
            /\ pc' = "idle"
            /\ cur' = [op |-> "setTrackingMode", n |-> 0, arg |-> tracking_mode,
                       err |-> "none"]
            /\ outcome' = Exception("NexstarUsageError", "none")
            /\ writes' = 1
            /\ tx' = Append(tx, [bytes |-> <<116, 1>>, op |-> "setTrackingMode",
                                 inputs |-> tracking_mode])
       ELSE WriteRequest("setTrackingMode", 0 + 1, 0, [tracking_mode |-> tracking_mode],
                         PyList(<<Command("GET_TRACKING_MODE"),
                                  PyEnum("NexstarTrackingMode", PyInt(tracking_mode))>>))

setTrackingMode(tracking_mode) ==
    /\ CanCall
    /\ IF tracking_mode \notin NexstarTrackingMode
       THEN RaiseBeforeIO("setTrackingMode", [tracking_mode |-> tracking_mode],
                          "NexstarUsageError")
       ELSE WriteRequest("setTrackingMode", 0 + 1, 0, [tracking_mode |-> tracking_mode],
                         PyList(<<Command("GET_TRACKING_MODE"),
                                  PyEnum("NexstarTrackingMode", PyInt(tracking_mode))>>))

getLocation ==
    /\ CanCall
    /\ WriteRequest("getLocation", 8 + 1, 0, <<>>, PyList(<<Command("GET_LOCATION")>>))

\* setLocation taking every rounded value for a northern or eastern one.
location_sign_north(seconds) == 0

\* setLocation: the sign byte of a rounded latitude or longitude, 0 when it
\* is >= 0 and 1 otherwise.
location_sign(seconds) == IF seconds >= 0 THEN 0 ELSE 1

\* latitude and longitude are given in half arc-seconds, so that
\* round(latitude * 3600) is RoundHalf(latitude).
setLocation(latitude, longitude) ==
    LET latitude_seconds == RoundHalf(latitude)
        longitude_seconds == RoundHalf(longitude)
        latitude_sign == location_sign(latitude_seconds)
        longitude_sign == location_sign(longitude_seconds)
        lat == IF latitude_seconds >= 0 THEN latitude_seconds ELSE -latitude_seconds
        lon == IF longitude_seconds >= 0 THEN longitude_seconds ELSE -longitude_seconds
        request == <<Command("SET_LOCATION"),
                     PyInt(lat \div 3600), PyInt((lat % 3600) \div 60),
                     PyInt((lat % 3600) % 60), PyInt(latitude_sign),
                     PyInt(lon \div 3600), PyInt((lon % 3600) \div 60),
                     PyInt((lon % 3600) % 60), PyInt(longitude_sign)>>
    IN /\ CanCall
       /\ WriteRequest("setLocation", 0 + 1, 0,
                       [latitude |-> latitude, longitude |-> longitude],
                       PyList(<<PyList(request)>>))

getTime ==
    /\ CanCall
    /\ WriteRequest("getTime", 8 + 1, 0, <<>>, PyList(<<Command("GET_TIME")>>))

\* UTC offsets of the timestamps handed to setTime, in half hours: whole
\* hours from -128 to 127, and -5.5 and +5.5 hours.
TimeOffsets == {-256, -48, -11, -10, -2, 0, 2, 11, 46, 254}

\* setTime: zone = round(timestamp.utcoffset() / timedelta(hours = 1)), then
\* if zone < 0: zone += 256; offset is the UTC offset in half hours.
zone_encode(offset) ==
    LET zone == RoundHalf(offset) IN
    IF zone < 0 THEN zone + 256 ELSE zone

\* setTime: a naive timestamp has utcoffset() None (TypeError in the
\* division); otherwise the zone byte is computed and then building the
\* request evaluates the undefined name NexStarCommand (NameError). Nothing
\* is written either way.  What is kept of the call is its timestamp and
\* the zone byte it had computed when it raised.
setTime(timestamp) ==
    /\ CanCall
    /\ IF ~timestamp.aware
       THEN RaiseBeforeIO("setTime", [timestamp |-> timestamp, zone |-> -1], "TypeError")
       ELSE RaiseBeforeIO("setTime",
                          [timestamp |-> timestamp, zone |-> zone_encode(timestamp.offset)],
                          "NameError")

getVersion ==
    /\ CanCall
    /\ WriteRequest("getVersion", 2 + 1, 0, <<>>, PyList(<<Command("GET_VERSION")>>))

getModel ==
    /\ CanCall
    /\ WriteRequest("getModel", 1 + 1, 0, <<>>, PyList(<<Command("GET_MODEL")>>))

\* echo: the check is (not isinstance(c, int)) and (0 <= c <= 255).
echo(c) ==
    /\ CanCall
    /\ IF ~c.isint /\ (0 <= c.v /\ c.v <= 255)
       THEN RaiseBeforeIO("echo", c, "NexstarUsageError")
       ELSE WriteRequest("echo", 1 + 1, c.v, c,
                         PyList(<<PyList(<<Command("ECHO"),
                                           IF c.isint THEN PyInt(c.v) ELSE PyFloat(c.v)>>)>>))

getAlignmentComplete ==
    /\ CanCall
    /\ WriteRequest("getAlignmentComplete", 1 + 1, 0, <<>>,
                    PyList(<<PyList(<<Command("GET_ALIGNMENT_COMPLETE")>>)>>))

getGotoInProgress ==
    /\ CanCall
    /\ WriteRequest("getGotoInProgress", 1 + 1, 0, <<>>,
                    PyList(<<PyList(<<Command("GET_GOTO_IN_PROGRESS")>>)>>))

\* cancelGoto sending a payload byte after its opcode.
cancelGoto_with_payload ==
    /\ CanCall
    /\ WriteRequest("cancelGoto", 0 + 1, 0, <<>>,
                    PyList(<<PyList(<<Command("CANCEL_GOTO"), PyInt(0)>>)>>))

cancelGoto ==
    /\ CanCall
    /\ WriteRequest("cancelGoto", 0 + 1, 0, <<>>,
                    PyList(<<PyList(<<Command("CANCEL_GOTO")>>)>>))

(***************************************************************************)
(* The passthrough operations.                                             *)
(***************************************************************************)
Motors == {AZM_RA_MOTOR, ALT_DEC_MOTOR}
\* Device arguments: the four NexstarDeviceId members, and 0 for a plain int
\* that is no member.
DeviceInputs == NexstarDeviceId \cup {0}
DeviceArg(d) == IF d \in NexstarDeviceId THEN PyEnum("NexstarDeviceId", PyInt(d)) ELSE PyInt(16)
\* Largest expected_response_bytes explored; -1 is explored too.
MaxExpected == 2
\* The sub-command of L bytes explored: the list [1, ..., L].
CommandList(L) == PyList([i \in 1 .. L |-> PyInt(i)])
\* slew_fixed rates: ints, and the same numbers as floats (isint FALSE).
FixedRates == [isint : BOOLEAN, v : -(9 + RateSlack) .. (9 + RateSlack)]
\* slew_variable rates, as h = rate * 3600 * 4 * 2 (half steps of the magnitude):
\* around 0, 0.1 degrees/second, and around the limit 65535.
VariableRates == {-131073, -131072, -131071, -131070, -2880, -3, -1,
                  0, 1, 3, 2880, 131070, 131071, 131072, 131073}

PassthroughOps == {"passthrough", "slew_fixed", "slew_variable", "getDeviceVersion"}

\* The length check without its lower bound.
passthrough_length_upto4(command_bytes) == Len(command_bytes) <= 4

\* passthrough: 1 <= len(command_bytes) <= 4
passthrough_length_ok(command_bytes) ==
    1 <= Len(command_bytes) /\ Len(command_bytes) <= 4

\* No padding at all.
passthrough_padding_none(command_bytes) == PyBytes(<<>>)

\* passthrough: padding = bytes(4 - len(command_bytes))
passthrough_padding(command_bytes) ==
    PyBytes([i \in 1 .. 4 - Len(command_bytes) |-> 0])

\* passthrough: request = [PASSTHROUGH, len(command_bytes), deviceId,
\* command_bytes, padding, expected_response_bytes]
passthrough_request(deviceId, command_bytes, expected_response_bytes) ==
    PyList(<<Command("PASSTHROUGH"), PyInt(Len(command_bytes)), deviceId,
             PyBytes(command_bytes), passthrough_padding(command_bytes),
             expected_response_bytes>>)

\* NexstarHandController.passthrough, up to the call of _read_binary; op and
\* inputs name the public call it serves.
passthrough(op, inputs, deviceId, command, expected_response_bytes) ==
    IF ~(deviceId.t = "enum" /\ deviceId.cls = "NexstarDeviceId")
    THEN RaiseBeforeIO(op, inputs, "NexstarUsageError")
    ELSE IF ~(expected_response_bytes.t = "int" /\ expected_response_bytes.v >= 0)
    THEN RaiseBeforeIO(op, inputs, "NexstarUsageError")
    ELSE LET command_bytes == to_bytes(command) IN
         IF ~command_bytes.ok THEN RaiseBeforeIO(op, inputs, command_bytes.exc)
         ELSE IF ~passthrough_length_ok(command_bytes.bytes)
         THEN RaiseBeforeIO(op, inputs, "NexstarUsageError")
         ELSE LET request == passthrough_request(deviceId, command_bytes.bytes,
                                                 expected_response_bytes)
              IN WriteRequest(op, expected_response_bytes.v + 1, 0,
                              [call |-> inputs,
                               deviceId |-> deviceId.v.v,
                               command |-> command_bytes.bytes,
                               expected |-> expected_response_bytes.v],
                              PyList(<<request>>))

passthrough_call(d, L, e) ==
    /\ CanCall
    /\ passthrough("passthrough", [deviceId |-> d, length |-> L, expected |-> e],
                   DeviceArg(d), CommandList(L), PyInt(e))

\* The rate check without the isinstance test.
slew_fixed_rate_any_type(rate) == -9 <= rate.v /\ rate.v <= 9

\* slew_fixed: isinstance(rate, int) and -9 <= rate <= +9
slew_fixed_rate_ok(rate) == rate.isint /\ -9 <= rate.v /\ rate.v <= 9

\* The range check letting 65536 through.
slew_variable_rate_upto65536(rate) == 0 <= rate /\ rate <= 65536

\* slew_variable: 0 <= rate <= 65535
slew_variable_rate_ok(rate) == 0 <= rate /\ rate <= 65535

\* The fixed-rate sub-command with the two opcodes exchanged.
slew_fixed_command_swapped(rate) ==
    PyList(<<PyEnum("NexstarPassthroughCommand",
                    PyInt(IF rate >= 0 THEN MOTOR_SLEW_NEGATIVE_FIXED_RATE
                                       ELSE MOTOR_SLEW_POSITIVE_FIXED_RATE)),
             PyInt(IF rate >= 0 THEN rate ELSE -rate)>>)

\* slew_fixed: the sub-command [command, rate] handed to passthrough, the
\* opcode chosen by the sign and the rate negated when negative.
slew_fixed_command(rate) ==
    LET command == IF rate >= 0 THEN MOTOR_SLEW_POSITIVE_FIXED_RATE
                                ELSE MOTOR_SLEW_NEGATIVE_FIXED_RATE
        magnitude == IF rate >= 0 THEN rate ELSE -rate
    IN PyList(<<PyEnum("NexstarPassthroughCommand", PyInt(command)), PyInt(magnitude)>>)

\* The variable-rate sub-command with the low byte of the rate first.
slew_variable_command_low_first(rounded) ==
    LET rate == IF rounded >= 0 THEN rounded ELSE -rounded IN
    PyList(<<PyEnum("NexstarPassthroughCommand",
                    PyInt(IF rounded >= 0 THEN MOTOR_SLEW_POSITIVE_VARIABLE_RATE
                                          ELSE MOTOR_SLEW_NEGATIVE_VARIABLE_RATE)),
             PyInt(rate % 256), PyInt(rate \div 256)>>)

\* slew_variable: the sub-command [command, rate // 256, rate % 256] handed
\* to passthrough; rounded is round(rate * 3600.0 * 4).
slew_variable_command(rounded) ==
    LET command == IF rounded >= 0 THEN MOTOR_SLEW_POSITIVE_VARIABLE_RATE
                                   ELSE MOTOR_SLEW_NEGATIVE_VARIABLE_RATE
        rate == IF rounded >= 0 THEN rounded ELSE -rounded
    IN PyList(<<PyEnum("NexstarPassthroughCommand", PyInt(command)),
                PyInt(rate \div 256), PyInt(rate % 256)>>)

slew_fixed(d, rate) ==
    LET inputs == [deviceId |-> d, rate |-> rate] IN
    /\ CanCall
    /\ IF d \notin Motors
       THEN RaiseBeforeIO("slew_fixed", inputs, "NexstarUsageError")
       ELSE IF ~slew_fixed_rate_ok(rate)
       THEN RaiseBeforeIO("slew_fixed", inputs, "NexstarUsageError")
       ELSE passthrough("slew_fixed", inputs, DeviceArg(d),
                        slew_fixed_command(rate.v), PyInt(0))

slew_variable(d, h) ==
    LET inputs == [deviceId |-> d, rate |-> [halfsteps |-> h]] IN
    /\ CanCall
    /\ IF d \notin Motors
       THEN RaiseBeforeIO("slew_variable", inputs, "NexstarUsageError")
       ELSE LET rounded == RoundHalf(h)
                rate == IF rounded >= 0 THEN rounded ELSE -rounded
            IN IF ~slew_variable_rate_ok(rate)
               THEN RaiseBeforeIO("slew_variable", inputs, "NexstarUsageError")
               ELSE passthrough("slew_variable", inputs, DeviceArg(d),
                                slew_variable_command(rounded), PyInt(0))

getDeviceVersion(d) ==
    /\ CanCall
    /\ passthrough("getDeviceVersion", [deviceId |-> d], DeviceArg(d),
                   PyEnum("NexstarPassthroughCommand", PyInt(GET_DEVICE_VERSION)),
                   PyInt(2))

(***************************************************************************)
(* The older revision (Nexstar.py): slew(device, rateMode, rate).  A FIXED *)
(* rate is an int or a float, a VARIABLE rate is given in half steps as    *)
(* for slew_variable.                                                      *)
(***************************************************************************)
NexstarSlewRateType == {"FIXED", "VARIABLE"}

\* The request list with the length byte of a VARIABLE request set to 2.
Nexstar_slew_request_length2(device, rateMode, rate) ==
    IF rateMode = "FIXED"
    THEN PyList(<<PyInt(80), PyInt(2), PyInt(device),
                  PyInt(IF rate.v >= 0 THEN 36 ELSE 37),
                  IF rate.isint THEN PyInt(IF rate.v >= 0 THEN rate.v ELSE -rate.v)
                                ELSE PyFloat(IF rate.v >= 0 THEN rate.v ELSE -rate.v),
                  PyInt(0), PyInt(0), PyInt(0)>>)
    ELSE LET rounded == RoundHalf(rate.halfsteps)
             magnitude == IF rounded >= 0 THEN rounded ELSE -rounded
         IN PyList(<<PyInt(80), PyInt(2), PyInt(device),
                     PyInt(IF rounded >= 0 THEN 6 ELSE 7),
                     PyInt(magnitude \div 256), PyInt(magnitude % 256),
                     PyInt(0), PyInt(0)>>)

\* slew: request = [ord("P"), 2, device.value, sign, rate, 0, 0, 0] for a
\* FIXED rate and [ord("P"), 3, device.value, sign, rate // 256, rate % 256,
\* 0, 0] for a VARIABLE one, rate being round(rate * 3600.0 * 4); sign is
\* chosen by the sign of the rate, which is negated when negative.
Nexstar_slew_request(device, rateMode, rate) ==
    IF rateMode = "FIXED"
    THEN PyList(<<PyInt(80), PyInt(2), PyInt(device),
                  PyInt(IF rate.v >= 0 THEN 36 ELSE 37),
                  IF rate.isint THEN PyInt(IF rate.v >= 0 THEN rate.v ELSE -rate.v)
                                ELSE PyFloat(IF rate.v >= 0 THEN rate.v ELSE -rate.v),
                  PyInt(0), PyInt(0), PyInt(0)>>)
    ELSE LET rounded == RoundHalf(rate.halfsteps)
             magnitude == IF rounded >= 0 THEN rounded ELSE -rounded
         IN PyList(<<PyInt(80), PyInt(3), PyInt(device),
                     PyInt(IF rounded >= 0 THEN 6 ELSE 7),
                     PyInt(magnitude \div 256), PyInt(magnitude % 256),
                     PyInt(0), PyInt(0)>>)

\* Nexstar.py, NexstarHandController.slew: the assert on the device, then
\* bytes(request), one write and _read_binary(0 + 1).  A rateMode that is
\* neither FIXED nor VARIABLE leaves request unassigned.
Nexstar_slew(device, rateMode, rate) ==
    LET inputs == [deviceId |-> device, rateMode |-> rateMode, rate |-> rate] IN
    /\ CanCall
    /\ IF device \notin Motors
       THEN RaiseBeforeIO("slew", inputs, "AssertionError")
       ELSE IF rateMode \notin NexstarSlewRateType
       THEN RaiseBeforeIO("slew", inputs, "UnboundLocalError")
       ELSE WriteRequest("slew", 0 + 1, 0, inputs,
                         Nexstar_slew_request(device, rateMode, rate))

(***************************************************************************)
(* The hand controller and the serial line.                                *)
(***************************************************************************)
\* Payload length of the response to a request, by its opcode; a passthrough
\* request names it in its last byte.
ReplyLen(req) ==
    LET c == req[1] IN
    CASE c \in {69, 90} -> 9
      [] c \in {101, 122} -> 17
      [] c \in {116, 109, 75, 74, 76} -> 1
      [] c = 86 -> 2
      [] c \in {119, 104} -> 8
      [] c = 80 -> req[Len(req)]
      [] OTHER -> 0

\* Payloads the hand controller is taken to send: one the operation can
\* decode ("8000,4000", "80000000,40000000", '1' for the goto flag, bytes of
\* value 1 otherwise), and one made of '#' bytes only.
Fill(b, N) == [i \in 1 .. N |-> b]
PlainPayload(req) ==
    LET c == req[1] IN
    CASE c \in {69, 90} -> <<56, 48, 48, 48, 44, 52, 48, 48, 48>>
      [] c \in {101, 122} ->
            <<56, 48, 48, 48, 48, 48, 48, 48, 44, 52, 48, 48, 48, 48, 48, 48, 48>>
      [] c = 76 -> <<49>>
      [] OTHER -> Fill(1, ReplyLen(req))
Payloads(req) ==
    IF ReplyLen(req) = 0 THEN {<<>>}
    ELSE {PlainPayload(req), Fill(Hash, ReplyLen(req))}

\* The answers of the hand controller to a request:
\*   frame   - the payload and the terminator,
\*   badterm - payload and one more byte that is not the terminator,
\*   absent  - as badterm, followed by '#' (sub-device did not answer),
\*   short   - fewer bytes than the frame has, then nothing,
\*   silent  - nothing.
Answers(req) ==
    LET N == ReplyLen(req) IN
    UNION {
        { [kind |-> "frame", bytes |-> p \o <<Hash>>],
          [kind |-> "badterm", bytes |-> p \o <<0>>],
          [kind |-> "absent", bytes |-> p \o <<0, Hash>>] }
        \cup (IF N >= 1 THEN { [kind |-> "short", bytes |-> p],
                               [kind |-> "short", bytes |-> <<Hash>>] }
                        ELSE {})
        : p \in Payloads(req) }
    \cup { [kind |-> "silent", bytes |-> <<>>] }

\* The hand controller takes the oldest request and sends its answer.
DeviceAnswer ==
    /\ tx # <<>>
    /\ \E a \in Answers(Head(tx).bytes) :
          /\ pending' = pending \o Tagged(a.bytes, "own")
          /\ ans' = a.kind
    /\ tx' = Tail(tx)
    /\ UNCHANGED <<pc, cur, rx, writes, reads, outcome, prev, site, main, other>>

\* Bytes in flight reach the input buffer: all of them, or all but the last.
Deliver ==
    /\ pending # <<>>
    /\ \E k \in {Len(pending) - 1, Len(pending)} \ {0} :
          /\ rx' = rx \o SubSeq(pending, 1, k)
          /\ pending' = SubSeq(pending, k + 1, Len(pending))
    /\ UNCHANGED <<pc, cur, tx, writes, reads, outcome, prev, ans, site, main, other>>

(***************************************************************************)
(* The reads of a call.                                                    *)
(***************************************************************************)
\* What is kept of one device.read(): bytes asked and got, the last byte got
\* (-1 when none), the exchanges the bytes belong to, and how many bytes were
\* still in flight when it returned.
ReadRecord(asked, got) ==
    [asked |-> asked, got |-> Len(got),
     last |-> IF got = <<>> THEN -1 ELSE got[Len(got)].b,
     tags |-> TagsOf(got), inflight |-> Len(pending)]

\* The recovery taking a read that timed out for the extra hash.
passthrough_recovery_lenient(extra_hash, first_error) ==
    IF extra_hash # <<Hash>> /\ extra_hash # <<>>
    THEN ExceptionFrom("NexstarProtocolError", "extra hash not found", first_error)
    ELSE Exception("NexstarPassthroughError", "no valid response")

\* passthrough's except branch, after extra_hash = self._device.read(1):
\* first_error is the detail of the NexstarProtocolError caught.
passthrough_recovery(extra_hash, first_error) ==
    IF extra_hash # <<Hash>>
    THEN ExceptionFrom("NexstarProtocolError", "extra hash not found", first_error)
    ELSE Exception("NexstarPassthroughError", "no valid response")

\* passthrough raising NexstarPassthroughError without its recovery read.
FirstRead_no_recovery ==
    /\ pc = "read"
    /\ tx = <<>>
    /\ LET got == DeviceRead(cur.n)
           r == read_binary(cur.n, Untag(got))
       IN /\ rx' = SubSeq(rx, Len(got) + 1, Len(rx))
          /\ reads' = Append(reads, ReadRecord(cur.n, got))
          /\ outcome' = IF r.exc = "NexstarProtocolError" /\ cur.op \in PassthroughOps
                        THEN Exception("NexstarPassthroughError", "no valid response")
                        ELSE IF r.exc # "none" THEN Exception(r.exc, r.detail)
                        ELSE Decode(cur, r.payload)
    /\ pc' = "idle"
    /\ UNCHANGED <<cur, tx, pending, writes, prev, ans, site, main, other>>

\* A read without a timeout: device.read() returns only once the buffer
\* holds all the bytes asked for.
FirstRead_blocking ==
    /\ pc = "read"
    /\ Len(rx) >= cur.n
    /\ tx = <<>>
    /\ LET got == DeviceRead(cur.n)
           r == read_binary(cur.n, Untag(got))
       IN /\ rx' = SubSeq(rx, Len(got) + 1, Len(rx))
          /\ reads' = Append(reads, ReadRecord(cur.n, got))
          /\ IF r.exc = "NexstarProtocolError" /\ cur.op \in PassthroughOps
             THEN /\ pc' = "recover"
                  /\ cur' = [cur EXCEPT !.err = r.detail]
                  /\ outcome' = outcome
             ELSE /\ pc' = "idle"
                  /\ cur' = cur
                  /\ outcome' = IF r.exc # "none" THEN Exception(r.exc, r.detail)
                                ELSE Decode(cur, r.payload)
    /\ UNCHANGED <<tx, pending, writes, prev, ans, site, main, other>>

\* _read_binary returns or raises; every operation but the passthrough ones
\* then decodes the payload and returns, or lets the exception out.
\* passthrough catches NexstarProtocolError and goes on to its recovery read.
FirstRead ==
    /\ pc = "read"
    /\ tx = <<>>
    /\ LET got == DeviceRead(cur.n)
           r == read_binary(cur.n, Untag(got))
       IN /\ rx' = SubSeq(rx, Len(got) + 1, Len(rx))
          /\ reads' = Append(reads, ReadRecord(cur.n, got))
          /\ IF r.exc = "NexstarProtocolError" /\ cur.op \in PassthroughOps
             THEN /\ pc' = "recover"
                  /\ cur' = [cur EXCEPT !.err = r.detail]
                  /\ outcome' = outcome
             ELSE /\ pc' = "idle"
                  /\ cur' = cur
                  /\ outcome' = IF r.exc # "none" THEN Exception(r.exc, r.detail)
                                ELSE Decode(cur, r.payload)
    /\ UNCHANGED <<tx, pending, writes, prev, ans, site, main, other>>

\* passthrough's recovery read, and the exception it ends in.
RecoveryRead ==
    /\ pc = "recover"
    /\ LET extra_hash == DeviceRead(1) IN
          /\ rx' = SubSeq(rx, Len(extra_hash) + 1, Len(rx))
          /\ reads' = Append(reads, ReadRecord(1, extra_hash))
          /\ outcome' = passthrough_recovery(Untag(extra_hash), cur.err)
    /\ pc' = "idle"
    /\ UNCHANGED <<cur, tx, pending, writes, prev, ans, site, main, other>>

(***************************************************************************)
(* The specification: one caller, calling in any order, with a few         *)
(* arguments per operation.                                                *)
(***************************************************************************)
Next ==
    \/ \E m \in Modes, hp \in BOOLEAN : getPosition(m, hp)
    \/ \E a \in {Angle(0, 0), Angle(131071, 0)}, m \in Modes, hp \in BOOLEAN :
          gotoPosition(a, Angle(65536, 0), m, hp)
    \/ \E hp \in BOOLEAN : sync(Angle(0, 0), Angle(65536, 0), hp)
    \/ getTrackingMode
    \/ \E tm \in {1, 4} : setTrackingMode(tm)
    \/ getLocation
    \/ \E lat \in {378000, 1843200} : setLocation(lat, -32400)
    \/ getTime
    \/ \E aware \in BOOLEAN : setTime([aware |-> aware, offset |-> 2])
    \/ getVersion
    \/ getModel
    \/ \E c \in {[isint |-> TRUE, v |-> 1], [isint |-> TRUE, v |-> 300],
                 [isint |-> FALSE, v |-> 65]} : echo(c)
    \/ getAlignmentComplete
    \/ getGotoInProgress
    \/ cancelGoto
    \/ \E d \in {0, GPS_DEVICE}, L \in {0, 1, 4, MaxCmdLen}, e \in {-1, MaxExpected} :
          passthrough_call(d, L, e)
    \/ \E d \in {AZM_RA_MOTOR, GPS_DEVICE},
          rate \in {[isint |-> TRUE, v |-> -9], [isint |-> TRUE, v |-> 9 + RateSlack],
                    [isint |-> FALSE, v |-> 2]} : slew_fixed(d, rate)
    \/ \E d \in {ALT_DEC_MOTOR, RTC_DEVICE}, h \in {-2880, 131071} : slew_variable(d, h)
    \/ \E d \in DeviceInputs : getDeviceVersion(d)
    \/ DeviceAnswer
    \/ Deliver
    \/ FirstRead
    \/ RecoveryRead

Spec == Init /\ [][Next]_vars

(***************************************************************************)
(* The same operations over all the arguments explored, for the first call *)
(* on a fresh connection.                                                  *)
(***************************************************************************)
FirstCall == cur.op = "none"

NextArgs ==
    \/ FirstCall /\ \E m \in Modes, hp \in BOOLEAN : getPosition(m, hp)
    \/ FirstCall /\ \E a \in GotoAngles, b \in GotoAngles, m \in Modes, hp \in BOOLEAN :
          gotoPosition(a, b, m, hp)
    \/ FirstCall /\ \E a \in GotoAngles, b \in GotoAngles, hp \in BOOLEAN : sync(a, b, hp)
    \/ FirstCall /\ getTrackingMode
    \/ FirstCall /\ \E tm \in TrackingInputs : setTrackingMode(tm)
    \/ FirstCall /\ getLocation
    \/ FirstCall /\ \E lat \in LocationInputs, lon \in LocationInputs :
          setLocation(lat, lon)
    \/ FirstCall /\ getTime
    \/ FirstCall /\ \E aware \in BOOLEAN, offset \in TimeOffsets :
          setTime([aware |-> aware, offset |-> offset])
    \/ FirstCall /\ getVersion
    \/ FirstCall /\ getModel
    \/ FirstCall /\ \E c \in EchoInputs : echo(c)
    \/ FirstCall /\ getAlignmentComplete
    \/ FirstCall /\ getGotoInProgress
    \/ FirstCall /\ cancelGoto
    \/ FirstCall /\ \E d \in DeviceInputs, L \in 0 .. MaxCmdLen, e \in -1 .. MaxExpected :
          passthrough_call(d, L, e)
    \/ FirstCall /\ \E d \in DeviceInputs, rate \in FixedRates : slew_fixed(d, rate)
    \/ FirstCall /\ \E d \in DeviceInputs, h \in VariableRates : slew_variable(d, h)
    \/ FirstCall /\ \E d \in DeviceInputs : getDeviceVersion(d)
    \/ DeviceAnswer
    \/ Deliver
    \/ FirstRead
    \/ RecoveryRead

SpecArgs == Init /\ [][NextArgs]_vars

(***************************************************************************)
(* Progress.  device.read() returns when the bytes asked for are there or  *)
(* when the timeout of the serial port (3.5 s) has elapsed, so a caller    *)
(* blocked in a read goes on; what the hand controller does with a request *)
(* (sending nothing is one of its answers) is settled by then.             *)
(***************************************************************************)
\* (DeviceAnswer always shortens tx, and a read always adds to reads.)
Progress ==
    /\ WF_(Len(tx))(DeviceAnswer)
    /\ WF_(Len(reads))(FirstRead)
    /\ WF_(Len(reads))(RecoveryRead)

SpecLive == Init /\ [][NextArgs]_vars /\ Progress

(***************************************************************************)
(* getPosition on a fresh connection, the hand controller answering with   *)
(* a whole frame whose payload is any of a set of texts of the right       *)
(* length.                                                                 *)
(***************************************************************************)
\* Payloads of 2W + 1 bytes, W = 4 or 8 (shown for W = 4):
\*   "8000,4000"  "ffff,0000"  "-001,0000"  "0,fffffff"  " 0x1,00_1"
\*   "11111111,"  "111,2,333"  "80g0,4000"  and nine bytes of value 200.
PositionPayloads(W) ==
    { <<56>> \o Zeros(W - 1) \o <<Comma, 52>> \o Zeros(W - 1),
      Fill(102, W) \o <<Comma>> \o Zeros(W),
      <<45>> \o Zeros(W - 2) \o <<49, Comma>> \o Zeros(W),
      <<48, Comma>> \o Fill(102, 2 * W - 1),
      <<32, 48, 120>> \o Fill(49, W - 3) \o <<Comma, 48, 48, 95>> \o Fill(49, W - 3),
      Fill(49, 2 * W) \o <<Comma>>,
      Fill(49, W - 1) \o <<Comma, 50, Comma>> \o Fill(51, W - 1),
      <<56, 48, 103>> \o Zeros(W - 3) \o <<Comma, 52>> \o Zeros(W - 1),
      Fill(200, 2 * W + 1) }

PositionAnswer ==
    /\ tx # <<>>
    /\ Head(tx).op = "getPosition"
    /\ \E p \in PositionPayloads((ReplyLen(Head(tx).bytes) - 1) \div 2) :
          pending' = pending \o Tagged(p \o <<Hash>>, "own")
    /\ ans' = "frame"
    /\ tx' = Tail(tx)
    /\ UNCHANGED <<pc, cur, rx, writes, reads, outcome, prev, site, main, other>>

NextPosition ==
    \/ FirstCall /\ \E m \in Modes, hp \in BOOLEAN : getPosition(m, hp)
    \/ PositionAnswer
    \/ Deliver
    \/ FirstRead

SpecPosition == Init /\ [][NextPosition]_vars

(***************************************************************************)
(* echo, getAlignmentComplete and getGotoInProgress on a fresh connection, *)
(* the hand controller answering with a whole frame of one payload byte.   *)
(***************************************************************************)
\* Payload bytes: 0 and 1, '#', '0' and '1', 'A', and 128 and 255, which are
\* not ASCII.
BytePayloads == {0, 1, 35, 48, 49, 65, 128, 255}

\* The bytes given to echo.
EchoBytes == {0, 35, 65, 255}

ByteOps == {"echo", "getAlignmentComplete", "getGotoInProgress"}

ByteAnswer ==
    /\ tx # <<>>
    /\ Head(tx).op \in ByteOps
    /\ \E b \in BytePayloads :
          pending' = pending \o Tagged(<<b, Hash>>, "own")
    /\ ans' = "frame"
    /\ tx' = Tail(tx)
    /\ UNCHANGED <<pc, cur, rx, writes, reads, outcome, prev, site, main, other>>

NextByte ==
    \/ FirstCall /\ \E b \in EchoBytes : echo([isint |-> TRUE, v |-> b])
    \/ FirstCall /\ getAlignmentComplete
    \/ FirstCall /\ getGotoInProgress
    \/ ByteAnswer
    \/ Deliver
    \/ FirstRead

SpecByte == Init /\ [][NextByte]_vars

(***************************************************************************)
(* Slewing on a fresh connection, by either revision of the client.        *)
(***************************************************************************)
NextSlew ==
    \/ FirstCall /\ \E d \in DeviceInputs, rate \in FixedRates : slew_fixed(d, rate)
    \/ FirstCall /\ \E d \in DeviceInputs, h \in VariableRates : slew_variable(d, h)
    \/ FirstCall /\ \E d \in DeviceInputs, rate \in FixedRates :
          Nexstar_slew(d, "FIXED", rate)
    \/ FirstCall /\ \E d \in DeviceInputs, h \in VariableRates :
          Nexstar_slew(d, "VARIABLE", [halfsteps |-> h])
    \/ FirstCall /\ Nexstar_slew(AZM_RA_MOTOR, "NONE", [isint |-> TRUE, v |-> 0])
    \/ DeviceAnswer
    \/ Deliver
    \/ FirstRead
    \/ RecoveryRead

SpecSlew == Init /\ [][NextSlew]_vars

(***************************************************************************)
(* The operations with a binary payload on a fresh connection, the hand    *)
(* controller answering with a whole frame whose payload holds the value   *)
(* of the terminator, alone or followed by one more byte.                  *)
(***************************************************************************)
\* Payloads of N bytes: '#' at one position and 1 elsewhere, and '#' only.
HashPayloads(N) ==
    { [i \in 1 .. N |-> IF i = k THEN Hash ELSE 1] : k \in 1 .. N }
    \cup { Fill(Hash, N) }

FrameOps ==
    {"getVersion", "getModel", "getTrackingMode", "getLocation", "getTime",
     "getDeviceVersion"}

FrameAnswer ==
    /\ tx # <<>>
    /\ Head(tx).op \in FrameOps
    /\ \E p \in HashPayloads(ReplyLen(Head(tx).bytes)), more \in {<<>>, <<Hash>>} :
          pending' = pending \o Tagged(p \o <<Hash>> \o more, "own")
    /\ ans' = "frame"
    /\ tx' = Tail(tx)
    /\ UNCHANGED <<pc, cur, rx, writes, reads, outcome, prev, site, main, other>>

NextFrame ==
    \/ FirstCall /\ getVersion
    \/ FirstCall /\ getModel
    \/ FirstCall /\ getTrackingMode
    \/ FirstCall /\ getLocation
    \/ FirstCall /\ getTime
    \/ FirstCall /\ \E d \in {AZM_RA_MOTOR, GPS_DEVICE} : getDeviceVersion(d)
    \/ FrameAnswer
    \/ Deliver
    \/ FirstRead
    \/ RecoveryRead

SpecFrame == Init /\ [][NextFrame]_vars

(***************************************************************************)
(* setLocation followed by getLocation on a fresh connection, the hand     *)
(* controller storing the location it is sent and answering getLocation    *)
(* with the location it has stored.                                        *)
(***************************************************************************)
StoringAnswer ==
    /\ tx # <<>>
    /\ Head(tx).op \in {"setLocation", "getLocation"}
    /\ IF Head(tx).op = "setLocation"
       THEN /\ site' = [bytes |-> Tail(Head(tx).bytes), set |-> TRUE,
                        inputs |-> Head(tx).inputs]
            /\ pending' = pending \o Tagged(<<Hash>>, "own")
       ELSE /\ site' = site
            /\ pending' = pending \o Tagged(site.bytes \o <<Hash>>, "own")
    /\ ans' = "frame"
    /\ tx' = Tail(tx)
    /\ UNCHANGED <<pc, cur, rx, writes, reads, outcome, prev, main, other>>

NextLocation ==
    \/ FirstCall /\ \E lat \in LocationInputs, lon \in LocationInputs :
          setLocation(lat, lon)
    \/ cur.op = "setLocation" /\ outcome = Returned(None) /\ getLocation
    \/ StoringAnswer
    \/ Deliver
    \/ FirstRead

SpecLocation == Init /\ [][NextLocation]_vars

(***************************************************************************)
(* getLocation on a fresh connection, the hand controller answering with   *)
(* a whole frame that holds the location it has stored: degrees, minutes,  *)
(* seconds and a sign byte for the latitude, then the same for the         *)
(* longitude.                                                              *)
(***************************************************************************)
SitePayloads ==
    { lat \o <<latSign>> \o lon \o <<lonSign>> :
        lat \in {<<52, 30, 0>>, <<0, 0, 1>>, <<255, 59, 59>>},
        latSign \in {0, 1, 35, 255},
        lon \in {<<4, 30, 0>>, <<0, 0, 0>>},
        lonSign \in {0, 1, 2} }

SiteAnswer ==
    /\ tx # <<>>
    /\ Head(tx).op = "getLocation"
    /\ \E p \in SitePayloads :
          /\ site' = [site EXCEPT !.bytes = p]
          /\ pending' = pending \o Tagged(p \o <<Hash>>, "own")
    /\ ans' = "frame"
    /\ tx' = Tail(tx)
    /\ UNCHANGED <<pc, cur, rx, writes, reads, outcome, prev, main, other>>

NextSite ==
    \/ FirstCall /\ getLocation
    \/ SiteAnswer
    \/ Deliver
    \/ FirstRead

SpecSite == Init /\ [][NextSite]_vars

(***************************************************************************)
(* A run of main(): it opens the serial port, makes the calls of           *)
(* status_report and the two slew_fixed calls, and closes the connection.  *)
(***************************************************************************)
\* The calls of status_report(controller) and then of main, in order.
Script ==
    <<[op |-> "getPosition", arg |-> "RA_DEC"],
      [op |-> "getPosition", arg |-> "AZM_ALT"],
      [op |-> "getTrackingMode", arg |-> 0],
      [op |-> "getLocation", arg |-> 0],
      [op |-> "getTime", arg |-> 0],
      [op |-> "getVersion", arg |-> 0],
      [op |-> "getModel", arg |-> 0],
      [op |-> "getAlignmentComplete", arg |-> 0],
      [op |-> "getGotoInProgress", arg |-> 0],
      [op |-> "getDeviceVersion", arg |-> AZM_RA_MOTOR],
      [op |-> "getDeviceVersion", arg |-> ALT_DEC_MOTOR],
      [op |-> "getDeviceVersion", arg |-> GPS_DEVICE],
      [op |-> "getDeviceVersion", arg |-> RTC_DEVICE],
      [op |-> "getModel", arg |-> 0],
      [op |-> "slew_fixed", arg |-> 9],
      [op |-> "slew_fixed", arg |-> 0]>>

\* main returns without a controller when no --port argument is given.
MainNoPort ==
    /\ main.at = "start"
    /\ main' = [main EXCEPT !.at = "returned"]
    /\ UNCHANGED <<pc, cur, tx, pending, rx, writes, reads, outcome, prev, ans, site, other>>

\* controller = NexstarHandController(port): serial.Serial(port = ...) opens
\* the port, or raises (no such device, no permission) and main ends there.
MainConstruct ==
    /\ main.at = "start"
    /\ \/ main' = [main EXCEPT !.at = "run", !.opened = @ + 1]
       \/ main' = [main EXCEPT !.at = "raised"]
    /\ UNCHANGED <<pc, cur, tx, pending, rx, writes, reads, outcome, prev, ans, site, other>>

\* The call main made last has ended in a way that lets main go on: it
\* returned, or it is a getDeviceVersion of status_report's loop and raised
\* NexstarPassthroughError.
MainGoesOn ==
    \/ main.k = 0
    \/ /\ pc = "idle"
       /\ \/ outcome.kind = "value"
          \/ /\ outcome.kind = "NexstarPassthroughError"
             /\ Script[main.k].op = "getDeviceVersion"

\* main (or status_report) makes its next call.
MainStep ==
    /\ main.at = "run"
    /\ main.k < Len(Script)
    /\ MainGoesOn
    /\ LET step == Script[main.k + 1] IN
       CASE step.op = "getPosition" -> getPosition(step.arg, TRUE)
         [] step.op = "getTrackingMode" -> getTrackingMode
         [] step.op = "getLocation" -> getLocation
         [] step.op = "getTime" -> getTime
         [] step.op = "getVersion" -> getVersion
         [] step.op = "getModel" -> getModel
         [] step.op = "getAlignmentComplete" -> getAlignmentComplete
         [] step.op = "getGotoInProgress" -> getGotoInProgress
         [] step.op = "getDeviceVersion" -> getDeviceVersion(step.arg)
         [] step.op = "slew_fixed" ->
                slew_fixed(AZM_RA_MOTOR, [isint |-> TRUE, v |-> step.arg])

\* An exception no except clause catches leaves status_report and main.
MainRaise ==
    /\ main.at = "run"
    /\ main.k > 0 /\ pc = "idle"
    /\ ~MainGoesOn
    /\ main' = [main EXCEPT !.at = "raised"]
    /\ UNCHANGED <<pc, cur, tx, pending, rx, writes, reads, outcome, prev, ans, site, other>>

\* controller.close(), the last statement of main.
MainClose ==
    /\ main.at = "run"
    /\ main.k = Len(Script)
    /\ MainGoesOn
    /\ main' = [main EXCEPT !.at = "returned", !.closed = @ + 1]
    /\ UNCHANGED <<pc, cur, tx, pending, rx, writes, reads, outcome, prev, ans, site, other>>

NextMain ==
    \/ MainNoPort
    \/ MainConstruct
    \/ MainStep
    \/ MainRaise
    \/ MainClose
    \/ DeviceAnswer
    \/ Deliver
    \/ FirstRead
    \/ RecoveryRead

SpecMain == Init /\ [][NextMain]_vars

(***************************************************************************)
(* Two callers of one NexstarHandController: the caller of the rest of     *)
(* this module calls getVersion or cancelGoto once, a second caller calls  *)
(* getModel once.  Response bytes are tagged "own" when they answer the    *)
(* first caller's request and "other" when they answer the second's.       *)
(***************************************************************************)
\* The second caller's getModel: self._write(request), then it blocks in
\* _read_binary(expected_response_length = 1 + 1).
OtherCall ==
    /\ other.pc = "idle"
    /\ tx' = Append(tx, [bytes |-> to_bytes(PyList(<<Command("GET_MODEL")>>)).bytes,
                         op |-> "other", inputs |-> <<>>])
    /\ other' = [other EXCEPT !.pc = "read", !.n = 1 + 1]
    /\ UNCHANGED <<pc, cur, pending, rx, writes, reads, outcome, prev, ans, site, main>>

\* The second caller's device.read(): what is kept is how many bytes it got
\* and whose responses they are part of.
OtherRead ==
    /\ other.pc = "read"
    /\ tx = <<>>
    /\ LET got == DeviceRead(other.n) IN
          /\ rx' = SubSeq(rx, Len(got) + 1, Len(rx))
          /\ other' = [other EXCEPT !.pc = "done", !.got = Len(got), !.tags = TagsOf(got)]
    /\ UNCHANGED <<pc, cur, tx, pending, writes, reads, outcome, prev, ans, site, main>>

\* The hand controller answers the oldest request, whoever wrote it.
SharedAnswer ==
    /\ tx # <<>>
    /\ \E a \in Answers(Head(tx).bytes) :
          /\ pending' = pending \o Tagged(a.bytes, IF Head(tx).op = "other"
                                                   THEN "other" ELSE "own")
          /\ ans' = a.kind
    /\ tx' = Tail(tx)
    /\ UNCHANGED <<pc, cur, rx, writes, reads, outcome, prev, site, main, other>>

\* The first caller is inside a round trip / the second caller is.
CallerBusy == pc # "idle"
OtherBusy == other.pc = "read"

\* No serialization: either caller may start while the other is between
\* its write and the end of its read.
NextShared ==
    \/ FirstCall /\ getVersion
    \/ FirstCall /\ cancelGoto
    \/ OtherCall
    \/ SharedAnswer
    \/ Deliver
    \/ FirstRead
    \/ OtherRead

SpecShared == Init /\ [][NextShared]_vars

\* A mutex around each round trip: a caller starts only when the other is
\* not inside one.
NextSerialized ==
    \/ ~OtherBusy /\ FirstCall /\ getVersion
    \/ ~OtherBusy /\ FirstCall /\ cancelGoto
    \/ ~CallerBusy /\ OtherCall
    \/ SharedAnswer
    \/ Deliver
    \/ FirstRead
    \/ OtherRead

SpecSerialized == Init /\ [][NextSerialized]_vars

(***************************************************************************)
(* Properties.                                                             *)
(***************************************************************************)
\* A call has ended and it did reach the transport.
Finished == pc = "idle" /\ cur.op # "none"
FramingOk(r) == r.got = r.asked /\ r.last = Hash

\* The operations whose response has a fixed payload length.
FixedLengthOps ==
    {"getPosition", "gotoPosition", "sync", "getTrackingMode", "setTrackingMode",
     "getLocation", "setLocation", "getTime", "setTime", "getVersion", "getModel",
     "echo", "getAlignmentComplete", "getGotoInProgress", "cancelGoto"}

\* C1: when the read of a fixed-length operation returns fewer bytes than
\* payload length + 1, or that many bytes not ending in '#', the operation
\* raises NexstarProtocolError and returns no value.
C1_FramingFailureRaises ==
    (Finished /\ cur.op \in FixedLengthOps /\ reads # <<>> /\ ~FramingOk(reads[1]))
        => /\ outcome.kind = "NexstarProtocolError"
           /\ outcome.value = <<>>
           /\ outcome.detail = IF reads[1].got # reads[1].asked THEN "length" ELSE "hash"

\* A getLocation whose nine bytes arrived with a last byte that is not '#'.
C1_Witness ==
    /\ Finished /\ cur.op = "getLocation"
    /\ reads # <<>> /\ reads[1].got = 9 /\ reads[1].last # Hash
    /\ outcome.kind = "NexstarProtocolError"

\* C3: once its request is written, passthrough ends in one of three ways:
\* the first read of expected_response_bytes + 1 bytes is well framed and the
\* payload is returned with no further read; the first read fails, one
\* recovery read of one byte returns '#', and NexstarPassthroughError is
\* raised; the first read fails, the recovery byte is missing or not '#', and
\* NexstarProtocolError is raised, chained to the first error.  There is
\* never a third read.
C3_PassthroughOutcomes ==
    (cur.op \in PassthroughOps /\ writes = 1) =>
        /\ Len(reads) <= 2
        /\ pc = "read" => reads = <<>>
        /\ pc = "recover" => Len(reads) = 1 /\ ~FramingOk(reads[1])
        /\ pc = "idle" =>
              /\ reads # <<>>
              /\ reads[1].asked = cur.n
              /\ FramingOk(reads[1]) =>
                    /\ Len(reads) = 1
                    /\ outcome.kind = "value"
                    /\ cur.op = "passthrough" => Len(outcome.value) = cur.n - 1
              /\ ~FramingOk(reads[1]) =>
                    /\ Len(reads) = 2
                    /\ reads[2].asked = 1
                    /\ IF reads[2].got = 1 /\ reads[2].last = Hash
                       THEN outcome.kind = "NexstarPassthroughError"
                       ELSE /\ outcome.kind = "NexstarProtocolError"
                            /\ outcome.cause =
                                  IF reads[1].got # reads[1].asked THEN "length" ELSE "hash"

\* A passthrough whose first read came back short and whose recovery read
\* timed out: NexstarProtocolError, chained.
C3_Witness ==
    /\ Finished /\ cur.op = "passthrough"
    /\ Len(reads) = 2 /\ reads[1].got < reads[1].asked /\ reads[2].got = 0
    /\ outcome.kind = "NexstarProtocolError" /\ outcome.cause = "length"

\* The stream held no byte of an earlier exchange during the call.
CleanStart ==
    /\ \A i \in DOMAIN reads : reads[i].tags \subseteq {"own"}
    /\ TagsOf(rx \o pending) \subseteq {"own"}
\* No read of the call timed out while bytes were still in flight.
InTime == \A i \in DOMAIN reads : reads[i].got < reads[i].asked => reads[i].inflight = 0
StreamEmpty == rx = <<>> /\ pending = <<>>
AbsentProbe ==
    Finished /\ cur.op = "getDeviceVersion" /\ writes = 1 /\ CleanStart /\ InTime

\* C2 as stated: getDeviceVersion to an absent sub-device raises
\* NexstarPassthroughError and leaves no byte of the exchange unread, whether
\* the hand controller answers with a full-length unterminated frame followed
\* by '#' or with a short answer that times out.
C2_AbsentAlwaysPassthroughError ==
    (AbsentProbe /\ ans \in {"absent", "short"})
        => (outcome.kind = "NexstarPassthroughError" /\ StreamEmpty)

\* C2, amended: on a stream that was aligned, when the hand controller answers
\* for the absent sub-device with expected + 1 bytes not ending in '#' followed
\* by '#', getDeviceVersion raises NexstarPassthroughError; when it answers
\* short and nothing follows, the recovery read finds no '#' and
\* getDeviceVersion raises NexstarProtocolError chained to the short read.
\* Either way no byte of the exchange is left unread, and a getModel or
\* getDeviceVersion that follows a NexstarPassthroughError on the aligned
\* stream and is answered with a whole frame returns its value.
C2_AbsentProbeRecovers ==
    /\ AbsentProbe =>
          /\ ans = "absent" => (outcome.kind = "NexstarPassthroughError" /\ StreamEmpty)
          /\ ans = "short" => /\ outcome.kind = "NexstarProtocolError"
                              /\ outcome.cause = "length"
                              /\ StreamEmpty
    /\ (/\ Finished /\ prev /\ cur.op \in {"getModel", "getDeviceVersion"}
        /\ writes = 1 /\ CleanStart /\ InTime /\ ans = "frame")
          => (outcome.kind = "value" /\ StreamEmpty)

\* The absent-device answer was read away whole: three bytes, then the '#'.
C2_Witness ==
    /\ AbsentProbe /\ ans = "absent"
    /\ Len(reads) = 2 /\ reads[1].got = 3 /\ reads[2].got = 1
    /\ outcome.kind = "NexstarPassthroughError" /\ StreamEmpty

\* C4: a call that ends in NexstarUsageError has written nothing and read
\* nothing: the transport is as it was (here: as on a fresh connection).
C4_UsageErrorNoIO ==
    outcome.kind = "NexstarUsageError"
        => /\ writes = 0 /\ reads = <<>>
           /\ tx = <<>> /\ StreamEmpty /\ ans = "none"

\* setTrackingMode refused a value that is no NexstarTrackingMode.
C4_Witness ==
    /\ Finished /\ cur.op = "setTrackingMode" /\ cur.inputs.tracking_mode = 4
    /\ outcome.kind = "NexstarUsageError" /\ writes = 0 /\ tx = <<>>

\* C5 as stated, for the calls that return or raise one of the three
\* Nexstar errors: the call made exactly one write and one or two reads.
C5_ExactlyOneWrite ==
    (Finished /\ outcome.kind \in {"value", "NexstarUsageError", "NexstarProtocolError",
                                   "NexstarPassthroughError"})
        => (writes = 1 /\ Len(reads) \in {1, 2})

\* C5, amended: a call makes at most one write; a call that raises before its
\* request is built and written makes no write and no read; a call that
\* writes then makes one read (a second one only in passthrough's recovery)
\* and writes nothing more; at most one request is on the line.
C5_WriteThenRead ==
    /\ writes \in {0, 1}
    /\ Len(tx) <= writes
    /\ Len(reads) <= 2
    /\ reads # <<>> => writes = 1
    /\ pc = "read" => (writes = 1 /\ reads = <<>>)
    /\ pc = "recover" => (writes = 1 /\ Len(reads) = 1 /\ cur.op \in PassthroughOps)
    /\ (Finished /\ writes = 1) =>
          /\ Len(reads) \in {1, 2}
          /\ Len(reads) = 2 => cur.op \in PassthroughOps
    /\ (Finished /\ writes = 0) =>
          /\ reads = <<>>
          /\ outcome.kind \notin {"value", "NexstarProtocolError", "NexstarPassthroughError"}

\* A probe that made its one write and its two reads.
C5_Witness ==
    /\ Finished /\ cur.op = "getDeviceVersion" /\ writes = 1 /\ Len(reads) = 2
    /\ outcome.kind = "NexstarPassthroughError"

\* C6: no operation returns a value built from bytes of the response to an
\* earlier call whose read had timed out.
C6_NoValueFromTimedOutResponse ==
    (Finished /\ outcome.kind = "value")
        => \A i \in DOMAIN reads : "late" \notin reads[i].tags

\* C7: the request of an accepted passthrough(deviceId, command, expected) is
\* the 8 bytes 'P', L, deviceId, the L command bytes, 4 - L zero bytes,
\* expected, with L in 1..4.
C7_PassthroughFrame ==
    \A i \in DOMAIN tx :
          tx[i].op = "passthrough" =>
              LET a == tx[i].inputs.call IN
              /\ a.length \in 1 .. 4
              /\ Len(tx[i].bytes) = 8
              /\ tx[i].bytes = <<80, a.length, a.deviceId>>
                                  \o [j \in 1 .. 4 |-> IF j <= a.length THEN j ELSE 0]
                                  \o <<a.expected>>

\* The request of passthrough(GPS_DEVICE, [1, 2], 2) is on the line.
C7_Witness ==
    /\ tx # <<>> /\ tx[1].op = "passthrough"
    /\ tx[1].inputs.call = [deviceId |-> GPS_DEVICE, length |-> 2, expected |-> 2]
    /\ tx[1].bytes = <<80, 2, 176, 1, 2, 0, 0, 2>>

FixedAccepted(a) == a.deviceId \in Motors /\ a.rate.isint /\ a.rate.v \in -9 .. 9
C9_SlewFixedArguments ==
    /\ (Finished /\ cur.op = "slew_fixed" /\ writes = 0)
          => /\ ~FixedAccepted(cur.inputs)
             /\ outcome.kind = "NexstarUsageError"
             /\ reads = <<>> /\ tx = <<>> /\ StreamEmpty
    /\ \A i \in DOMAIN tx :
          tx[i].op = "slew_fixed" => FixedAccepted(tx[i].inputs.call)
    /\ (cur.op = "slew_fixed" /\ writes = 1) => outcome.kind # "NexstarUsageError"

\* slew_fixed(GPS_DEVICE, 5) was refused.
C9_Witness ==
    /\ Finished /\ cur.op = "slew_fixed" /\ writes = 0
    /\ cur.inputs = [deviceId |-> GPS_DEVICE, rate |-> [isint |-> TRUE, v |-> 5]]
    /\ outcome.kind = "NexstarUsageError"

\* C10: slew_variable raises NexstarUsageError, with no I/O, for every
\* deviceId that is not a motor and for every rate with
\* round(|rate| * 3600 * 4) > 65535; it accepts exactly the rates with
\* 0 <= round(|rate| * 3600 * 4) <= 65535 on a motor.  (rate is h / 2 here.)
Abs(x) == IF x >= 0 THEN x ELSE -x
VariableAccepted(a) ==
    a.deviceId \in Motors /\ RoundHalf(Abs(a.rate.halfsteps)) \in 0 .. 65535
C10_SlewVariableArguments ==
    /\ (Finished /\ cur.op = "slew_variable" /\ writes = 0)
          => /\ ~VariableAccepted(cur.inputs)
             /\ outcome.kind = "NexstarUsageError"
             /\ reads = <<>> /\ tx = <<>> /\ StreamEmpty
    /\ \A i \in DOMAIN tx :
          tx[i].op = "slew_variable" => VariableAccepted(tx[i].inputs.call)
    /\ (cur.op = "slew_variable" /\ writes = 1) => outcome.kind # "NexstarUsageError"

\* A rate whose magnitude rounds to 65536 (65535.5, a tie) was refused on a motor.
C10_Witness ==
    /\ Finished /\ cur.op = "slew_variable" /\ writes = 0
    /\ cur.inputs = [deviceId |-> ALT_DEC_MOTOR, rate |-> [halfsteps |-> -131071]]
    /\ outcome.kind = "NexstarUsageError"

\* C11: the request of an accepted slew_variable(deviceId, rate) carries the
\* sub-command [s, m div 256, m mod 256], m = round(|rate| * 3600 * 4), s = 6
\* when the rounded rate is >= 0 and 7 when it is negative, in the frame
\* 'P', 3, deviceId, s, m div 256, m mod 256, 0, 0.
C11_SlewVariableBody ==
    \A i \in DOMAIN tx :
        tx[i].op = "slew_variable" =>
            LET a == tx[i].inputs.call
                m == RoundHalf(Abs(a.rate.halfsteps))
                s == IF RoundHalf(a.rate.halfsteps) >= 0 THEN 6 ELSE 7
            IN /\ tx[i].inputs.command = <<s, m \div 256, m % 256>>
               /\ tx[i].bytes = <<80, 3, a.deviceId, s, m \div 256, m % 256, 0, 0>>

\* slew_variable(AZM_RA_MOTOR, -0.1) put 'P', 3, 16, 7, 5, 160, 0, 0 on the line.
C11_Witness ==
    /\ tx # <<>> /\ tx[1].op = "slew_variable"
    /\ tx[1].inputs.call = [deviceId |-> AZM_RA_MOTOR, rate |-> [halfsteps |-> -2880]]
    /\ tx[1].bytes = <<80, 3, 16, 7, 5, 160, 0, 0>>

\* C12: the request of an accepted slew_fixed(deviceId, rate) carries the
\* sub-command [36, rate] when rate >= 0 (rate 0 included) and [37, -rate]
\* when rate < 0; the magnitude byte is in 0..9 and the expected response
\* byte count is 0.
C12_SlewFixedBody ==
    \A i \in DOMAIN tx :
        tx[i].op = "slew_fixed" =>
            LET rate == tx[i].inputs.call.rate.v
                body == IF rate >= 0 THEN <<36, rate>> ELSE <<37, -rate>>
            IN /\ tx[i].inputs.command = body
               /\ body[2] \in 0 .. 9
               /\ tx[i].inputs.expected = 0
               /\ tx[i].bytes = <<80, 2, tx[i].inputs.call.deviceId>> \o body \o <<0, 0, 0>>

\* slew_fixed(ALT_DEC_MOTOR, -9) put 'P', 2, 17, 37, 9, 0, 0, 0 on the line.
C12_Witness ==
    /\ tx # <<>> /\ tx[1].op = "slew_fixed"
    /\ tx[1].inputs.call.rate = [isint |-> TRUE, v |-> -9]
    /\ tx[1].bytes = <<80, 2, 17, 37, 9, 0, 0, 0>>

\* A frame 'X,Y#' with X and Y of W plain hex digits each.
WellFormedPosition(frame, W) ==
    /\ Len(frame) = 2 * W + 2
    /\ frame[2 * W + 2] = Hash
    /\ frame[W + 1] = Comma
    /\ \A i \in (1 .. W) \cup (W + 2 .. 2 * W + 1) : IsHexChar(frame[i])

\* The value of the hex digits d[from .. from + 3].
Val4(d, from) == 4096 * d[from] + 256 * d[from + 1] + 16 * d[from + 2] + d[from + 3]

\* The k-th angle of a getPosition value whose code has bits / 4 digits:
\* the whole degrees of 360 * code / 2^bits, and whether that is all of it.
Degrees(v, k) ==
    LET d == v.codes[k]
        top == 360 * Val4(d, 1) + (IF v.bits = 32 THEN (360 * Val4(d, 5)) \div 65536 ELSE 0)
        rest == IF v.bits = 32 THEN (360 * Val4(d, 5)) % 65536 ELSE 0
    IN [whole |-> top \div 65536, exact |-> top % 65536 = 0 /\ rest = 0]

\* C13: when getPosition reads a frame 'X,Y#' with X and Y of 8 (high
\* precision) or 4 (standard) hex digits, it returns the pair of angles
\* (360 * int(X, 16) / 2^n, 360 * int(Y, 16) / 2^n), n = 32 or 16, in that
\* order.
C13_PositionDecoded ==
    [][ (/\ pc = "read" /\ pc' = "idle" /\ cur.op = "getPosition"
         /\ WellFormedPosition(Untag(rx), cur.arg \div 4))
        => LET W == cur.arg \div 4
               frame == Untag(rx)
           IN outcome' = Returned([codes |-> <<[i \in 1 .. W |-> HexDigit(frame[i])],
                                               [i \in 1 .. W |-> HexDigit(frame[W + 1 + i])]>>,
                                   neg |-> <<FALSE, FALSE>>,
                                   bits |-> 4 * W]) ]_vars

\* getPosition in high precision read "80000000,40000000#" and returned
\* (180.0, 90.0).
C13_Witness ==
    /\ Finished /\ cur.op = "getPosition" /\ cur.arg = 32
    /\ outcome.kind = "value"
    /\ outcome.value.codes = << <<8, 0, 0, 0, 0, 0, 0, 0>>, <<4, 0, 0, 0, 0, 0, 0, 0>> >>
    /\ outcome.value.neg = <<FALSE, FALSE>>
    /\ Degrees(outcome.value, 1) = [whole |-> 180, exact |-> TRUE]
    /\ Degrees(outcome.value, 2) = [whole |-> 90, exact |-> TRUE]

\* The k-th angle of a getPosition value is in [0, 360): its code is not
\* negative and is below 2^bits.
RECURSIVE Significant(_)
Significant(d) == IF d # <<>> /\ d[1] = 0 THEN Significant(Tail(d)) ELSE d
AngleInRange(v, k) == ~v.neg[k] /\ 4 * Len(Significant(v.codes[k])) <= v.bits

\* C14: whenever getPosition returns a value, both angles are in [0, 360).
C14_PositionInRange ==
    (Finished /\ cur.op = "getPosition" /\ outcome.kind = "value")
        => (AngleInRange(outcome.value, 1) /\ AngleInRange(outcome.value, 2))

\* The opcode letters by coordinate mode, upper case; lower case is 32 more.
GetLetter(mode) == IF mode = "RA_DEC" THEN 69 ELSE 90
GotoLetter(mode) == IF mode = "RA_DEC" THEN 82 ELSE 66
CaseOf(precise) == IF precise THEN 32 ELSE 0
FieldWidth(precise) == IF precise THEN 8 ELSE 4

\* The request is an opcode followed by two fields of W hex digits each,
\* separated by a comma.
CoordinateRequest(bytes, W) ==
    /\ Len(bytes) = 1 + 2 * W + 1
    /\ bytes[1 + W + 1] = Comma
    /\ \A i \in (2 .. W + 1) \cup (W + 3 .. 2 * W + 2) : IsHexChar(bytes[i])

\* The requests of getPosition and gotoPosition carry the opcode the mode
\* and the precision flag select.
PositionOpcodes ==
    \A i \in DOMAIN tx :
        LET a == tx[i].inputs IN
        /\ tx[i].op = "getPosition" =>
              tx[i].bytes = <<GetLetter(a.mode) + CaseOf(a.precise)>>
        /\ tx[i].op = "gotoPosition" =>
              tx[i].bytes[1] = GotoLetter(a.mode) + CaseOf(a.precise)

\* getPosition reads 17 + 1 bytes in high precision and 9 + 1 in standard.
PositionReadLength ==
    (cur.op = "getPosition" /\ tx # <<>>)
        => cur.n = 2 * FieldWidth(Head(tx).inputs.precise) + 1 + 1

\* C15: for getPosition and gotoPosition the coordinate mode selects the
\* opcode letter (RA_DEC: E/R, AZM_ALT: Z/B) and the precision flag selects
\* its case and the payload shape: lower case and 8-hex-digit fields in high
\* precision (getPosition reads 17 + 1 bytes), upper case and 4-hex-digit
\* fields in standard precision (getPosition reads 9 + 1 bytes).
C15_PrecisionSelectsShape ==
    /\ PositionOpcodes
    /\ PositionReadLength
    /\ \A i \in DOMAIN tx :
          tx[i].op = "gotoPosition" =>
              CoordinateRequest(tx[i].bytes, FieldWidth(tx[i].inputs.precise))

\* C16: for an angle in [0, 360) the code gotoPosition puts on the wire is
\* an unsigned integer below 2^n, rendered as exactly 4 (n = 16) or 8
\* (n = 32) hex digits per axis, so that the request is 1 + 9 or 1 + 17
\* bytes long; angles within half a step below 360 included.
C16_CodeFitsField ==
    \A i \in DOMAIN tx :
        tx[i].op = "gotoPosition" =>
            LET W == FieldWidth(tx[i].inputs.precise)
                fields == SplitComma(Tail(tx[i].bytes))
            IN /\ Len(tx[i].bytes) = 1 + 2 * W + 1
               /\ Len(fields) = 2
               /\ \A k \in 1 .. 2 :
                     LET code == int16(fields[k]) IN
                     /\ Len(fields[k]) = W
                     /\ code.ok /\ ~code.neg
                     /\ 4 * Len(Significant(code.digits)) <= 4 * W

\* The value of a short sequence of hex digits.
RECURSIVE Val(_)
Val(d) == IF d = <<>> THEN 0 ELSE 16 * Val(SubSeq(d, 1, Len(d) - 1)) + d[Len(d)]

\* What getPosition would decode from a field gotoPosition wrote for the
\* angle a, less a.  Coarsely, in units of 360 / 2^17 degrees for a standard
\* field (360 * code / 2^16 is 2 * code units) and of 360 / 2^20 degrees for
\* a precise one (whose code, less its last three digits, is that many units).
CoarseError(a, field, precise) ==
    LET code == int16(field).digits
        n == Len(code)
    IN IF precise THEN Val(SubSeq(code, 1, n - 3)) - 8 * a.u
                  ELSE 2 * Val(code) - a.u

\* The same in full, in units of 360 / 2^33 degrees, for a coarse error of a
\* few units (at most 9).
RoundTripError(a, field, precise) ==
    LET code == int16(field).digits
        n == Len(code)
    IN IF precise
       THEN 8192 * CoarseError(a, field, precise) + 2 * Val(SubSeq(code, n - 2, n)) - a.f
       ELSE 65536 * CoarseError(a, field, precise) - a.f

\* C17: for an angle a in [0, 360), decoding as getPosition does the code
\* that gotoPosition writes for a gives an angle within 360 / 2^16 of a in
\* standard precision and within 360 / 2^32 of a in high precision.
C17_RoundTripWithinStep ==
    \A i \in DOMAIN tx :
        tx[i].op = "gotoPosition" =>
            LET a == tx[i].inputs
                fields == SplitComma(Tail(tx[i].bytes))
                step == IF a.precise THEN 2 ELSE 131072
            IN /\ Len(fields) = 2
               /\ \A k \in 1 .. 2 :
                     LET angle == IF k = 1 THEN a.first ELSE a.second
                         e == RoundTripError(angle, fields[k], a.precise)
                     IN /\ int16(fields[k]).ok /\ ~int16(fields[k]).neg
                        /\ CoarseError(angle, fields[k], a.precise) \in -9 .. 9
                        /\ Abs(e) <= step

\* gotoPosition wrote the code 2 for 1.5 standard steps and the code 2^32
\* for 360 less half a precise step, each half a step away from the angle.
C17_Witness ==
    \E i \in DOMAIN tx :
        /\ tx[i].op = "gotoPosition"
        /\ \/ /\ ~tx[i].inputs.precise /\ tx[i].inputs.first = Angle(3, 0)
              /\ RoundTripError(Angle(3, 0), SplitComma(Tail(tx[i].bytes))[1], FALSE) = 65536
           \/ /\ tx[i].inputs.precise /\ tx[i].inputs.first = Angle(131071, 65535)
              /\ RoundTripError(Angle(131071, 65535), SplitComma(Tail(tx[i].bytes))[1], TRUE) = 1

\* C18: gotoPosition writes one request, its opcode followed by the hex
\* text 'X,Y', reads exactly one byte, and returns as soon as that byte is
\* the terminator; it does no other I/O and never sends GET_GOTO_IN_PROGRESS
\* ('L').
C18_GotoReturnsOnAcknowledge ==
    /\ \A i \in DOMAIN tx :
          tx[i].op = "gotoPosition" =>
              LET fields == SplitComma(Tail(tx[i].bytes)) IN
              /\ tx[i].bytes[1] \in {66, 82, 98, 114}
              /\ Len(fields) = 2
              /\ int16(fields[1]).ok /\ int16(fields[2]).ok
    /\ cur.op = "gotoPosition" =>
          /\ writes = 1
          /\ Len(tx) <= 1
          /\ \A i \in DOMAIN tx : tx[i].op = "gotoPosition"
          /\ Len(reads) <= 1
          /\ \A i \in DOMAIN reads : reads[i].asked = 1
          /\ pc \in {"read", "idle"}
          /\ pc = "idle" =>
                /\ Len(reads) = 1
                /\ FramingOk(reads[1]) => outcome = Returned(None)
                /\ ~FramingOk(reads[1]) => outcome.kind = "NexstarProtocolError"

\* gotoPosition returned after its one read of one byte, the terminator.
C18_Witness ==
    /\ Finished /\ cur.op = "gotoPosition"
    /\ writes = 1 /\ Len(reads) = 1
    /\ reads[1].asked = 1 /\ reads[1].got = 1 /\ reads[1].last = Hash
    /\ reads[1].tags = {"own"}
    /\ outcome = Returned(None)

\* C19: sync with angles in [0, 360) writes its opcode ('s' in high
\* precision, 'S' in standard) followed by the hex text 'X,Y' of 8 or 4
\* digits per axis, then reads one byte; it never fails before writing.
C19_SyncWritesRequest ==
    /\ (Finished /\ cur.op = "sync") =>
          /\ writes = 1
          /\ Len(reads) = 1 /\ reads[1].asked = 1
          /\ outcome.kind \in {"value", "NexstarProtocolError"}
    /\ \A i \in DOMAIN tx :
          tx[i].op = "sync" =>
              /\ tx[i].bytes[1] = 83 + CaseOf(tx[i].inputs.precise)
              /\ CoordinateRequest(tx[i].bytes, FieldWidth(tx[i].inputs.precise))

\* C20: setTrackingMode(mode) writes the two bytes 'T' (84), mode.value and
\* reads one byte; getTrackingMode writes the one byte 't' (116) and reads
\* 1 + 1 bytes; a set request never carries the get opcode.
C20_TrackingModeRequests ==
    /\ \A i \in DOMAIN tx :
          /\ tx[i].op = "setTrackingMode" =>
                /\ tx[i].inputs.tracking_mode \in NexstarTrackingMode
                /\ tx[i].bytes = <<84, tx[i].inputs.tracking_mode>>
          /\ tx[i].op = "getTrackingMode" => tx[i].bytes = <<116>>
    /\ (cur.op = "setTrackingMode" /\ writes = 1) => cur.n = 1
    /\ (cur.op = "getTrackingMode" /\ writes = 1) => cur.n = 1 + 1

\* C21: setTime(timestamp, dst) with a timestamp that has a UTC offset
\* writes the 9 bytes 'H', hour, minute, second, month, day, year - 2000,
\* zone, dst, then reads one byte and returns or raises NexstarProtocolError.
C21_SetTimeWritesRequest ==
    /\ (Finished /\ cur.op = "setTime" /\ cur.inputs.timestamp.aware) =>
          /\ writes = 1
          /\ Len(reads) = 1 /\ reads[1].asked = 1
          /\ outcome.kind \in {"value", "NexstarProtocolError"}
    /\ \A i \in DOMAIN tx :
          tx[i].op = "setTime" => (Len(tx[i].bytes) = 9 /\ tx[i].bytes[1] = 72)

\* C22: for a whole-hour UTC offset z in -128 .. 127, the zone byte setTime
\* computes is in 0 .. 255 and getTime's decoding of it gives z back.
C22_ZoneRoundTrip ==
    (/\ Finished /\ cur.op = "setTime" /\ cur.inputs.timestamp.aware
     /\ cur.inputs.timestamp.offset % 2 = 0
     /\ cur.inputs.timestamp.offset \div 2 \in -128 .. 127)
        => /\ cur.inputs.zone \in 0 .. 255
           /\ zone_decode(cur.inputs.zone) = cur.inputs.timestamp.offset \div 2

\* setTime computed the zone byte 251 for a timestamp five hours behind UTC.
C22_Witness ==
    /\ Finished /\ cur.op = "setTime"
    /\ cur.inputs.timestamp = [aware |-> TRUE, offset |-> -10]
    /\ cur.inputs.zone = 251
    /\ zone_decode(cur.inputs.zone) = -5

\* The read of a call of op is about to take a whole frame of one payload
\* byte and the terminator.
ReadsByteFrame(op) ==
    /\ pc = "read" /\ pc' = "idle" /\ cur.op = op
    /\ Len(rx) = 2 /\ rx[2].b = Hash

\* C23 as stated: echo(b) answered by [b, '#'] returns b, and answered by
\* [b', '#'] with b' # b raises NexstarProtocolError.
C23_EchoReturnsByte ==
    [][ ReadsByteFrame("echo")
        => IF rx[1].b = cur.arg
           THEN /\ outcome'.kind = "value"
                /\ outcome'.value # None
                /\ outcome'.value = cur.arg
           ELSE outcome'.kind = "NexstarProtocolError" ]_vars

\* C23: echo(b), b in 0 .. 255, answered by [b, '#'] returns None, and
\* answered by [b', '#'] with b' # b raises NexstarProtocolError, not
\* NexstarUsageError.
C23_EchoAcknowledges ==
    [][ ReadsByteFrame("echo")
        => IF rx[1].b = cur.arg
           THEN outcome' = Returned(None)
           ELSE outcome'.kind = "NexstarProtocolError" ]_vars

\* echo(65) has read a whole frame and returned.
C23_Witness ==
    /\ Finished /\ cur.op = "echo" /\ cur.arg = 65
    /\ Len(reads) = 1 /\ reads[1].got = 2 /\ reads[1].last = Hash
    /\ outcome = Returned(None)

\* echo(65) has read a whole frame and raised NexstarProtocolError.
C23_WitnessMismatch ==
    /\ Finished /\ cur.op = "echo" /\ cur.arg = 65
    /\ Len(reads) = 1 /\ reads[1].got = 2 /\ reads[1].last = Hash
    /\ outcome.kind = "NexstarProtocolError"

\* C24: getAlignmentComplete returns FALSE for the payload byte 0 and TRUE
\* for 1, getGotoInProgress FALSE for '0' (48) and TRUE for '1' (49); for
\* every other payload byte each raises NexstarProtocolError.
C24_BooleanDecoding ==
    [][ /\ ReadsByteFrame("getAlignmentComplete")
           => CASE rx[1].b = 0 -> outcome' = Returned(FALSE)
                [] rx[1].b = 1 -> outcome' = Returned(TRUE)
                [] OTHER -> outcome'.kind = "NexstarProtocolError"
        /\ ReadsByteFrame("getGotoInProgress")
           => CASE rx[1].b = 48 -> outcome' = Returned(FALSE)
                [] rx[1].b = 49 -> outcome' = Returned(TRUE)
                [] OTHER -> outcome'.kind = "NexstarProtocolError" ]_vars

\* C25: cancelGoto writes exactly the one byte 'M' (77), reads exactly one
\* byte, returns when that byte is the terminator and raises
\* NexstarProtocolError otherwise.
C25_CancelGotoExchange ==
    /\ \A i \in DOMAIN tx : tx[i].op = "cancelGoto" => tx[i].bytes = <<77>>
    /\ cur.op = "cancelGoto" =>
          /\ writes = 1
          /\ Len(reads) <= 1
          /\ \A i \in DOMAIN reads : reads[i].asked = 1
          /\ pc \in {"read", "idle"}
          /\ pc = "idle" =>
                /\ Len(reads) = 1
                /\ outcome = IF FramingOk(reads[1])
                             THEN Returned(None)
                             ELSE Exception("NexstarProtocolError",
                                            IF reads[1].got = 1 THEN "hash" ELSE "length")

\* cancelGoto returned after reading the terminator sent in answer to it.
C25_Witness ==
    /\ Finished /\ cur.op = "cancelGoto"
    /\ writes = 1 /\ Len(reads) = 1
    /\ reads[1].asked = 1 /\ reads[1].got = 1 /\ reads[1].last = Hash
    /\ reads[1].tags = {"own"}
    /\ outcome = Returned(None)

\* cancelGoto read a byte that is not the terminator and raised.
C25_WitnessRejected ==
    /\ Finished /\ cur.op = "cancelGoto"
    /\ Len(reads) = 1 /\ reads[1].got = 1 /\ reads[1].last # Hash
    /\ outcome.kind = "NexstarProtocolError"

\* C27: every setLocation request written is the 9 bytes 'W' (87), latDeg,
\* latMin, latSec, latSign, lonDeg, lonMin, lonSec, lonSign: each sign byte
\* is 1 when the rounded arc-second value is negative and 0 otherwise,
\* degrees are >= 0, minutes and seconds are in 0 .. 59, and
\* deg * 3600 + min * 60 + sec is the magnitude of the rounded value.
C27_SetLocationRequest ==
    \A i \in DOMAIN tx :
        tx[i].op = "setLocation" =>
            LET b == tx[i].bytes
                Fields(k, seconds) ==
                    /\ b[k + 3] = (IF seconds < 0 THEN 1 ELSE 0)
                    /\ b[k] >= 0
                    /\ b[k + 1] \in 0 .. 59 /\ b[k + 2] \in 0 .. 59
                    /\ b[k] * 3600 + b[k + 1] * 60 + b[k + 2] = Abs(seconds)
            IN /\ Len(b) = 9 /\ b[1] = 87
               /\ Fields(2, RoundHalf(tx[i].inputs.latitude))
               /\ Fields(6, RoundHalf(tx[i].inputs.longitude))

\* The request of setLocation(52.5, -4.5) is on the line:
\* 'W', 52, 30, 0, 0, 4, 30, 0, 1.
C27_Witness ==
    \E i \in DOMAIN tx :
        /\ tx[i].op = "setLocation"
        /\ tx[i].inputs = [latitude |-> 378000, longitude |-> -32400]
        /\ tx[i].bytes = <<87, 52, 30, 0, 0, 4, 30, 0, 1>>

\* So is that of setLocation(-1.5", -0.5"): -1.5 rounds to -2 (south), -0.5
\* rounds to 0, which is not negative.
C27_WitnessTies ==
    \E i \in DOMAIN tx :
        /\ tx[i].op = "setLocation"
        /\ tx[i].inputs = [latitude |-> -3, longitude |-> -1]
        /\ tx[i].bytes = <<87, 0, 0, 2, 1, 0, 0, 0, 0>>

\* C26: after setLocation(lat, lon) with lat and lon whole numbers of
\* arc-seconds has returned, against a hand controller that stores the 8
\* bytes it is sent, a getLocation that returns a value returns (lat, lon).
\* (Values are in arc-seconds; the inputs of the request in half arc-seconds.)
C26_LocationRoundTrip ==
    (/\ Finished /\ cur.op = "getLocation" /\ outcome.kind = "value"
     /\ site.set
     /\ site.inputs.latitude % 2 = 0 /\ site.inputs.longitude % 2 = 0)
        => outcome.value = <<site.inputs.latitude \div 2, site.inputs.longitude \div 2>>

\* setLocation(52.5, -4.5) then getLocation() returned (52.5, -4.5):
\* 189000 and -16200 arc-seconds.
C26_Witness ==
    /\ Finished /\ cur.op = "getLocation"
    /\ site.set /\ site.inputs = [latitude |-> 378000, longitude |-> -32400]
    /\ site.bytes = <<52, 30, 0, 0, 4, 30, 0, 1>>
    /\ outcome = Returned(<<189000, -16200>>)

\* C28: on every exit path of the run that owns it, error paths included,
\* the connection is released exactly once: when main has ended, every
\* connection it opened has been closed, and none has been closed twice.
C28_ReleasedExactlyOnce ==
    /\ main.closed <= main.opened
    /\ main.at \in {"returned", "raised"} => main.closed = main.opened

\* A read of one caller has consumed bytes of a response to the other
\* caller's request.
CrossRead ==
    \/ "own" \in other.tags
    \/ \E i \in DOMAIN reads : "other" \in reads[i].tags

\* C29: with each round trip serialized by a mutex, no read of one caller
\* ever consumes bytes of the other caller's response (without the mutex
\* such a state is reachable).
C29_SerializedNoCrossRead == ~CrossRead

\* The call that has ended got no byte from the hand controller: each of
\* its reads timed out empty and it raised NexstarProtocolError, after one
\* read, or two for a passthrough operation.
FailedOnSilence ==
    /\ outcome.kind = "NexstarProtocolError"
    /\ Len(reads) = (IF cur.op \in PassthroughOps THEN 2 ELSE 1)
    /\ \A i \in DOMAIN reads : reads[i].got = 0

\* C30: when every read returns within its timeout, every call that has
\* started eventually ends, whatever the hand controller sends; and a call
\* the hand controller sends nothing for ends in NexstarProtocolError after
\* one timed-out read (two for a passthrough operation).
C30_EveryCallEnds ==
    /\ [](Finished /\ ans = "silent" => FailedOnSilence)
    /\ (pc # "idle") ~> (pc = "idle")

\* getDeviceVersion against a silent hand controller has ended, after its
\* read and its recovery read both timed out.
C30_Witness ==
    /\ Finished /\ cur.op = "getDeviceVersion" /\ ans = "silent"
    /\ Len(reads) = 2 /\ reads[1].asked = 3 /\ reads[2].asked = 1
    /\ FailedOnSilence

\* getVersion against a silent hand controller has ended after one read.
C30_WitnessOneRead ==
    /\ Finished /\ cur.op = "getVersion" /\ ans = "silent"
    /\ Len(reads) = 1 /\ reads[1].asked = 3
    /\ FailedOnSilence

\* C31: echo(c) with c not an integer, or an integer outside 0 .. 255,
\* raises NexstarUsageError and writes nothing: no such call ends before
\* its write in another exception, and no request of such a call is written.
C31_EchoUsageError ==
    /\ (pc = "idle" /\ cur.op = "echo" /\ writes = 0)
          => (outcome.kind = "NexstarUsageError" /\ reads = <<>> /\ tx = <<>>)
    /\ \A i \in DOMAIN tx :
          tx[i].op = "echo" => tx[i].inputs.isint /\ tx[i].inputs.v \in 0 .. 255

\* The number of commas among the payload bytes of a frame.
CommaCount(frame) ==
    Cardinality({i \in 1 .. Len(frame) - 1 : frame[i] = Comma})

\* C32: when getPosition reads a correctly framed response whose payload
\* has no comma, or two or more commas, it raises NexstarProtocolError (and
\* so returns no value).
C32_FieldCountChecked ==
    [][ (/\ pc = "read" /\ pc' = "idle" /\ cur.op = "getPosition"
         /\ Len(rx) = cur.n /\ rx[cur.n].b = Hash
         /\ CommaCount(Untag(rx)) # 1)
        => outcome'.kind = "NexstarProtocolError" ]_vars

\* The ways a public operation may end.
DeclaredOutcomes ==
    {"value", "NexstarUsageError", "NexstarProtocolError", "NexstarPassthroughError"}

\* C33: whatever bytes the hand controller sends, a call that has written
\* its request ends in a returned value, NexstarUsageError,
\* NexstarProtocolError or NexstarPassthroughError, and in no other
\* exception.
C33_DeclaredOutcomesOnly ==
    (Finished /\ writes >= 1) => outcome.kind \in DeclaredOutcomes

\* C34: framing is by length only.  When an operation with a binary payload
\* of N >= 1 bytes reads while the input holds N + 1 bytes or more, with
\* '#' at position N + 1 and '#' among the N bytes before it, the frame is
\* accepted: the read takes exactly N + 1 bytes, the call ends, and the
\* operation is handed (getVersion, getModel, getTrackingMode and
\* getDeviceVersion return) the N payload bytes as they are.
C34_FramedByLengthOnly ==
    [][ (/\ pc = "read" /\ tx = <<>> /\ reads' # reads
         /\ cur.op \in FrameOps
         /\ Len(rx) >= cur.n /\ rx[cur.n].b = Hash
         /\ \E i \in 1 .. cur.n - 1 : rx[i].b = Hash)
        => LET payload == [i \in 1 .. cur.n - 1 |-> rx[i].b] IN
           /\ pc' = "idle"
           /\ Len(reads') = 1 /\ reads'[1].asked = cur.n /\ reads'[1].got = cur.n
           /\ rx' = SubSeq(rx, cur.n + 1, Len(rx))
           /\ outcome'.kind \notin {"NexstarProtocolError", "NexstarPassthroughError"}
           /\ outcome' = CASE cur.op \in {"getVersion", "getDeviceVersion"} ->
                                Returned(<<payload[1], payload[2]>>)
                           [] cur.op \in {"getModel", "getTrackingMode"} ->
                                Returned(payload[1])
                           [] cur.op = "getLocation" -> DecodeLocation(payload)
                           [] cur.op = "getTime" -> DecodeTime(payload) ]_vars

\* getVersion has read '###' out of '####', returned (35, 35) and left the
\* fourth byte.
C34_Witness ==
    /\ Finished /\ cur.op = "getVersion"
    /\ Len(reads) = 1 /\ reads[1].asked = 3 /\ reads[1].got = 3
    /\ outcome = Returned(<<35, 35>>)
    /\ Untag(rx) = <<Hash>> /\ pending = <<>>

\* getTime has read a frame whose minute byte is '#' and returned a time of
\* 01:35:01.
C34_WitnessTime ==
    /\ Finished /\ cur.op = "getTime"
    /\ Len(reads) = 1 /\ reads[1].got = 9
    /\ outcome = Returned(<<2001, 1, 1, 1, 35, 1, 1, TRUE>>)

\* C35: a value returned by getTrackingMode is one of the tracking mode
\* codes 0 (OFF), 1 (ALT_AZ), 2 (EQ_NORTH), 3 (EQ_SOUTH).
C35_TrackingModeInRange ==
    (Finished /\ cur.op = "getTrackingMode" /\ outcome.kind = "value")
        => outcome.value \in NexstarTrackingMode

\* C36: getLocation that has read the 8 payload bytes [latDeg, latMin,
\* latSec, latSign, lonDeg, lonMin, lonSec, lonSign] returns, in arc-seconds,
\* (latDeg * 3600 + latMin * 60 + latSec, lonDeg * 3600 + lonMin * 60 +
\* lonSec), each negated when its sign byte is not 0 (whatever its value).
C36_LocationDecoded ==
    (/\ Finished /\ cur.op = "getLocation"
     /\ Len(reads) = 1 /\ FramingOk(reads[1]))
    => LET b == site.bytes
           lat == b[1] * 3600 + b[2] * 60 + b[3]
           lon == b[5] * 3600 + b[6] * 60 + b[7]
       IN /\ outcome.kind = "value"
          /\ outcome.value[1] = (IF b[4] = 0 THEN lat ELSE 0 - lat)
          /\ outcome.value[2] = (IF b[8] = 0 THEN lon ELSE 0 - lon)

\* getLocation has read 52 30' 0" with sign byte 35 and 4 30' 0" with sign
\* byte 0, and returned (-52.5, 4.5) degrees.
C36_Witness ==
    /\ Finished /\ cur.op = "getLocation"
    /\ Len(reads) = 1 /\ FramingOk(reads[1])
    /\ site.bytes = <<52, 30, 0, 35, 4, 30, 0, 0>>
    /\ outcome = Returned(<<-189000, 16200>>)

\* The arguments (device, FIXED or VARIABLE, rate) that slew_fixed,
\* respectively slew_variable, accepts.
AcceptedByFinal(a) ==
    CASE a.rateMode = "FIXED" -> FixedAccepted(a)
      [] a.rateMode = "VARIABLE" -> VariableAccepted(a)
      [] OTHER -> FALSE

\* The bytes slew_fixed(device, rate), respectively slew_variable(device,
\* rate), hands to the transport.
FinalSlewBytes(device, rateMode, rate) ==
    LET command == IF rateMode = "FIXED" THEN slew_fixed_command(rate.v)
                   ELSE slew_variable_command(RoundHalf(rate.halfsteps))
        request == passthrough_request(DeviceArg(device), to_bytes(command).bytes,
                                       PyInt(0))
    IN to_bytes(PyList(<<request>>)).bytes

\* C37: for every motor and every rate that slew_fixed / slew_variable
\* accept, slew(device, FIXED / VARIABLE, rate) of Nexstar.py writes the
\* same 8 bytes as slew_fixed / slew_variable; both return None once the
\* acknowledgement is read, and after a framing failure of the
\* acknowledgement the older revision raises NexstarProtocolError after its
\* one read while the final one makes a recovery read.
C37_SlewRevisionsAgree ==
    /\ \A i \in DOMAIN tx :
          /\ (tx[i].op = "slew" /\ AcceptedByFinal(tx[i].inputs))
                => /\ Len(tx[i].bytes) = 8
                   /\ tx[i].bytes = FinalSlewBytes(tx[i].inputs.deviceId,
                                                   tx[i].inputs.rateMode,
                                                   tx[i].inputs.rate)
          /\ tx[i].op = "slew_fixed"
                => tx[i].bytes = FinalSlewBytes(tx[i].inputs.call.deviceId, "FIXED",
                                                tx[i].inputs.call.rate)
          /\ tx[i].op = "slew_variable"
                => tx[i].bytes = FinalSlewBytes(tx[i].inputs.call.deviceId, "VARIABLE",
                                                tx[i].inputs.call.rate)
    /\ (pc = "idle" /\ cur.op = "slew" /\ writes = 0) => ~AcceptedByFinal(cur.inputs)
    /\ (Finished /\ cur.op = "slew" /\ writes = 1)
          => /\ Len(reads) = 1
             /\ outcome = IF FramingOk(reads[1]) THEN Returned(None)
                          ELSE Exception("NexstarProtocolError",
                                         IF reads[1].got = 1 THEN "hash" ELSE "length")
    /\ (Finished /\ cur.op \in {"slew_fixed", "slew_variable"} /\ writes = 1)
          => IF FramingOk(reads[1])
             THEN Len(reads) = 1 /\ outcome = Returned(None)
             ELSE /\ Len(reads) = 2
                  /\ outcome.kind \in {"NexstarProtocolError", "NexstarPassthroughError"}

\* slew(AZM_RA_MOTOR, VARIABLE, -0.1) of Nexstar.py put 'P', 3, 16, 7, 5,
\* 160, 0, 0 on the line, the bytes of slew_variable(AZM_RA_MOTOR, -0.1).
C37_Witness ==
    /\ tx # <<>> /\ tx[1].op = "slew"
    /\ tx[1].inputs = [deviceId |-> AZM_RA_MOTOR, rateMode |-> "VARIABLE",
                       rate |-> [halfsteps |-> -2880]]
    /\ tx[1].bytes = <<80, 3, 16, 7, 5, 160, 0, 0>>
    /\ tx[1].bytes = FinalSlewBytes(AZM_RA_MOTOR, "VARIABLE", [halfsteps |-> -2880])

\* slew of Nexstar.py has ended in NexstarProtocolError after one read that
\* got a byte other than '#'.
C37_WitnessFailure ==
    /\ Finished /\ cur.op = "slew" /\ writes = 1
    /\ Len(reads) = 1 /\ reads[1].got = 1 /\ reads[1].last # Hash
    /\ outcome.kind = "NexstarProtocolError"

====
